---- MODULE Spec2Model ----
(* Content-creator dashboard: the in-memory Domain Store (MemStorage), the  *)
(* generation stubs (LocalLLM, LocalImageGenerator, LocalTTS,               *)
(* VideoGenerator) and the automation orchestrator                          *)
(* POST /api/automation/create-content, with the routes over the stored    *)
(* entities, the derived queries, POST /api/automation/schedule and the     *)
(* script routes POST /api/ai/text-to-speech and /api/ai/generate-video.    *)
(*                                                                          *)
(* Execution model: one Node.js event loop.  A request handler runs         *)
(* atomically from one timer callback to the next: awaiting a MemStorage    *)
(* method never yields to another request (the promise is already settled), *)
(* awaiting a generation stub does (the stub resolves from setTimeout).     *)
(* Every action below is one such atomic segment.                           *)
EXTENDS Integers, Sequences, FiniteSets, TLC

VARIABLES
    trendingTopics, topicId,        \* MemStorage.trendingTopics / topicId
    scripts, scriptId,              \* MemStorage.scripts / scriptId
    contents, contentId,            \* MemStorage.contents / contentId
    scheduledPosts, postId,         \* MemStorage.scheduledPosts / postId
    platformAccounts, accountId,    \* MemStorage.platformAccounts / accountId
    platforms, nextPlatformId,      \* MemStorage.platforms / platformId
    aiConfigs, aiConfigId,          \* MemStorage.aiConfigs / aiConfigId
    llmProcessing,                  \* LocalLLM.isProcessing
    llmActiveModel, llmDownloaded,  \* LocalLLM.activeModel / downloadedModels
    imgProcessing, imageCounter,    \* LocalImageGenerator.isProcessing / imageCounter
    imgActiveModel, imgDownloaded,  \* LocalImageGenerator.activeModel / downloadedModels
    ttsProcessing, audioCounter,    \* LocalTTS.isProcessing / audioCounter
    downloadedVoices,               \* LocalTTS.downloadedVoices
    vidProcessing, videoCounter,    \* VideoGenerator.isProcessing / videoCounter
    now,                            \* Date.now()
    runs,                           \* the create-content requests: locals and position
    hist,                           \* per request: the topics in the store and the requests in
                                    \* progress when it resolved its topic
    ops,                            \* number of other API requests served so far
    last                            \* the last exchange on a store route: request and answer

storeVars == <<trendingTopics, topicId, scripts, scriptId, contents, contentId,
               scheduledPosts, postId, platformAccounts, accountId>>
llmVars   == <<llmProcessing, llmActiveModel, llmDownloaded>>
imgVars   == <<imgProcessing, imageCounter, imgActiveModel, imgDownloaded>>
ttsVars   == <<ttsProcessing, audioCounter, downloadedVoices>>
vidVars   == <<vidProcessing, videoCounter>>
stubVars  == <<llmVars, imgVars, ttsVars, vidVars>>
cfgVars   == <<platforms, nextPlatformId, aiConfigs, aiConfigId>>
vars      == <<storeVars, cfgVars, stubVars, now, runs, hist, ops, last>>

----------------------------------------------------------------------------
(* Bounds *)

MaxRuns        == 2    \* create-content requests per behaviour
MaxOps         == 3    \* other API requests per behaviour
MaxScheduleOps == 2    \* other API requests per behaviour of SpecSchedule
MaxClock       == 1    \* clock ticks per behaviour

Runs == 1..MaxRuns

----------------------------------------------------------------------------
(* JavaScript values *)

NULL == [null |-> TRUE]            \* null / undefined
Some(x) == [v |-> x]               \* an optional request field that is present

\* if (x) on an optional number: undefined and 0 are falsy
TruthyNum(opt) == opt # NULL /\ opt.v # 0
\* if (x) on an optional boolean
TruthyBool(opt) == opt # NULL /\ opt.v = TRUE

Min(a, b) == IF a < b THEN a ELSE b
Max(a, b) == IF a > b THEN a ELSE b

\* Array.prototype.includes
Includes(seq, x) == \E i \in 1..Len(seq) : seq[i] = x

RECURSIVE IdsAscending(_)
\* the keys of a Map in insertion order; ids are assigned increasing and
\* Map.set on an existing key keeps its position
IdsAscending(S) ==
    IF S = {} THEN <<>>
    ELSE LET m == CHOOSE x \in S : \A y \in S : x <= y
         IN  <<m>> \o IdsAscending(S \ {m})

\* Array.from(map.values())
Values(map) == LET ids == IdsAscending(DOMAIN map)
               IN  [i \in 1..Len(ids) |-> map[ids[i]]]

\* map.set(id, rec)
MapSet(map, id, rec) == [i \in (DOMAIN map) \cup {id} |-> IF i = id THEN rec ELSE map[i]]
\* map.delete(id)
MapDelete(map, id) == [i \in (DOMAIN map) \ {id} |-> map[i]]
\* map.get(id)
MapGet(map, id) == IF id \in DOMAIN map THEN map[id] ELSE NULL

\* { ...existing, ...update }
Merge(existing, update) ==
    [f \in (DOMAIN existing) \cup (DOMAIN update) |->
        IF f \in DOMAIN update THEN update[f] ELSE existing[f]]

\* s || d on a string; the empty string stands for undefined and null as well
OrStr(s, d) == IF s = "" THEN d ELSE s

\* a template string built around a topic name
Text(template, topicName) == [text |-> template, about |-> topicName]

\* `${dir}/${prefix}_${counter}_${timestamp}.${ext}`
Path(dir, prefix, counter, timestamp, ext) ==
    [dir |-> dir, prefix |-> prefix, n |-> counter, ts |-> timestamp, ext |-> ext]

----------------------------------------------------------------------------
(* MemStorage: the seed data and the store's methods *)

Hour == 60 * 60 * 1000             \* milliseconds

SeedTopics ==
    (1 :> [id |-> 1, topic |-> "Open Source AI Models", category |-> "Tech",
           description |-> "Rising interest", trendScore |-> 78, discoveredAt |-> 0])
 @@ (2 :> [id |-> 2, topic |-> "Self-Hosted Content Creation", category |-> "Productivity",
           description |-> "Growing demand", trendScore |-> 65, discoveredAt |-> 0])
 @@ (3 :> [id |-> 3, topic |-> "Voice Generation Technology", category |-> "AI",
           description |-> "New advancements", trendScore |-> 92, discoveredAt |-> 0])

SeedScripts ==
    (1 :> [id |-> 1, title |-> "Creating Zero-Cost Content with AI",
           topic |-> "AI content creation", format |-> "video",
           content |-> [format |-> "video", about |-> "AI content creation", headers |-> 5],
           duration |-> 360, tone |-> "educational", targetAudience |-> "content creators",
           createdAt |-> 0 - 48 * Hour, audioPath |-> NULL, status |-> "draft"])
 @@ (2 :> [id |-> 2, title |-> "5 AI Tools Every Creator Needs",
           topic |-> "AI tools", format |-> "short",
           content |-> [format |-> "short", about |-> "AI tools", headers |-> 0],
           duration |-> 60, tone |-> "enthusiastic", targetAudience |-> "social media creators",
           createdAt |-> 0 - 24 * Hour,
           audioPath |-> [dir |-> "/content/audio", prefix |-> "5-ai-tools", n |-> 0,
                          ts |-> 0, ext |-> "mp3"],
           status |-> "finalized"])

SeedAiConfig(id, name, type, model, status) ==
    [id |-> id, name |-> name, modelType |-> type, modelName |-> model, active |-> TRUE,
     settings |-> [seed |-> id], capabilities |-> [seed |-> id], lastUpdated |-> 0,
     downloadStatus |-> status]

SeedAiConfigs ==
    (1 :> SeedAiConfig(1, "Llama 3", "llm", "llama3", "not_downloaded"))
 @@ (2 :> SeedAiConfig(2, "Local TTS", "tts", "professional-male", "available"))
 @@ (3 :> SeedAiConfig(3, "SVG Generator", "image", "svg-generator", "available"))

SeedPlatforms ==
    (1 :> [id |-> 1, name |-> "YouTube", icon |-> "smart_display", active |-> TRUE])
 @@ (2 :> [id |-> 2, name |-> "Instagram", icon |-> "photo_camera", active |-> TRUE])
 @@ (3 :> [id |-> 3, name |-> "Twitter", icon |-> "tag", active |-> TRUE])

SeedAccount(id, platform, name) ==
    [id |-> id, platformId |-> platform, name |-> name, username |-> name,
     active |-> TRUE]

SeedAccounts ==
    (1 :> SeedAccount(1, 1, "TechChannel"))
 @@ (2 :> SeedAccount(2, 2, "techinsider"))
 @@ (3 :> SeedAccount(3, 3, "TechDaily"))

SeedContent(id, type, file, days) ==
    [id |-> id, title |-> Text("seed", ""), contentType |-> type, status |-> "published",
     metadata |-> [likes |-> 1], description |-> Text("seed", ""),
     filePath |-> file, thumbnailPath |-> Path("/content/thumbnails", "seed", 0, 0, "jpg"),
     createdAt |-> 0 - days * 24 * Hour]

SeedContents ==
    (1 :> SeedContent(1, "video", Path("/content/videos", "seed", 0, 0, "mp4"), 3))
 @@ (2 :> SeedContent(2, "image", Path("/content/images", "seed", 0, 0, "jpg"), 5))
 @@ (3 :> SeedContent(3, "text", NULL, 7))

\* the seed posts take their contentId from this.contentId++ again: 4, 5, 6
SeedPosts ==
    (1 :> [id |-> 1, contentId |-> 4, platformAccountId |-> 3, scheduledTime |-> 2 * Hour,
           status |-> "pending", postId |-> NULL, error |-> NULL])
 @@ (2 :> [id |-> 2, contentId |-> 5, platformAccountId |-> 1, scheduledTime |-> 24 * Hour,
           status |-> "pending", postId |-> NULL, error |-> NULL])
 @@ (3 :> [id |-> 3, contentId |-> 6, platformAccountId |-> 2, scheduledTime |-> 5 * 24 * Hour,
           status |-> "draft", postId |-> NULL, error |-> NULL])

\* MemStorage.getTrendingTopic
getTrendingTopic(id) == MapGet(trendingTopics, id)

\* a sort step that puts the new element first whatever its score
InsertByScoreDesc_front(sorted, t) == <<t>> \o sorted

RECURSIVE InsertByScoreDesc(_, _)
\* one step of a stable sort with comparator (a, b) => b.trendScore - a.trendScore:
\* t goes after every element whose score is not lower
InsertByScoreDesc(sorted, t) ==
    IF sorted = <<>> THEN <<t>>
    ELSE IF Head(sorted).trendScore >= t.trendScore
         THEN <<Head(sorted)>> \o InsertByScoreDesc(Tail(sorted), t)
         ELSE <<t>> \o sorted

RECURSIVE SortByScoreDesc(_)
\* Array.prototype.sort((a, b) => b.trendScore - a.trendScore), which is stable
SortByScoreDesc(seq) ==
    IF seq = <<>> THEN <<>>
    ELSE InsertByScoreDesc(SortByScoreDesc(SubSeq(seq, 1, Len(seq) - 1)), seq[Len(seq)])

\* Array.prototype.slice(0, limit)
Slice0(seq, limit) ==
    LET end == IF limit < 0 THEN Max(Len(seq) + limit, 0) ELSE Min(limit, Len(seq))
    IN  SubSeq(seq, 1, end)

\* getTopTrendingTopics without the sort: the first topics in insertion order
getTopTrendingTopics_unsorted(limit) == Slice0(Values(trendingTopics), limit)

\* MemStorage.getTopTrendingTopics
getTopTrendingTopics(limit) == Slice0(SortByScoreDesc(Values(trendingTopics)), limit)

\* MemStorage.getPlatformAccountsByPlatform
getPlatformAccountsByPlatform(platformId) ==
    SelectSeq(Values(platformAccounts), LAMBDA account : account.platformId = platformId)

\* MemStorage.createScript: the record stored under id
NewScript(id, ins, t) ==
    [id |-> id, content |-> ins.content, format |-> ins.format, title |-> ins.title,
     topic |-> ins.topic, status |-> OrStr(ins.status, "draft"), audioPath |-> NULL,
     duration |-> ins.duration, tone |-> ins.tone, targetAudience |-> ins.targetAudience,
     createdAt |-> t]

\* createContent that reuses the id of a stored record with the same title
NewContent_reuse(id, ins, t) ==
    LET same == {i \in DOMAIN contents : contents[i].title = ins.title}
        key  == IF same = {} THEN id ELSE CHOOSE i \in same : TRUE
    IN  [id |-> key, title |-> ins.title, contentType |-> ins.contentType,
         status |-> OrStr(ins.status, "draft"), metadata |-> ins.metadata,
         description |-> ins.description, filePath |-> ins.filePath,
         thumbnailPath |-> ins.thumbnailPath, createdAt |-> t]

\* MemStorage.createContent: the record stored under id
NewContent(id, ins, t) ==
    [id |-> id, title |-> ins.title, contentType |-> ins.contentType,
     status |-> OrStr(ins.status, "draft"), metadata |-> ins.metadata,
     description |-> ins.description, filePath |-> ins.filePath,
     thumbnailPath |-> ins.thumbnailPath, createdAt |-> t]

\* MemStorage.createScheduledPost: the record stored under id
NewScheduledPost(id, ins) ==
    [id |-> id, contentId |-> ins.contentId, platformAccountId |-> ins.platformAccountId,
     scheduledTime |-> ins.scheduledTime, status |-> OrStr(ins.status, "pending"),
     postId |-> NULL, error |-> NULL]

\* MemStorage.createTrendingTopic: the record stored under id
NewTrendingTopic(id, ins, t) ==
    [id |-> id, topic |-> ins.topic, description |-> ins.description,
     category |-> ins.category, trendScore |-> ins.trendScore, discoveredAt |-> t]

\* MemStorage.createPlatformAccount: the record stored under id
NewPlatformAccount(id, ins) ==
    [id |-> id, platformId |-> ins.platformId, name |-> ins.name, username |-> ins.username,
     active |-> ins.active]

RECURSIVE InsertDescBy(_, _, _)
\* one step of a stable sort with comparator (a, b) => b[f] - a[f]
InsertDescBy(sorted, x, f) ==
    IF sorted = <<>> THEN <<x>>
    ELSE IF Head(sorted)[f] >= x[f]
         THEN <<Head(sorted)>> \o InsertDescBy(Tail(sorted), x, f)
         ELSE <<x>> \o sorted

RECURSIVE SortDescBy(_, _)
\* Array.prototype.sort((a, b) => b[f] - a[f]), which is stable
SortDescBy(seq, f) ==
    IF seq = <<>> THEN <<>>
    ELSE InsertDescBy(SortDescBy(SubSeq(seq, 1, Len(seq) - 1), f), seq[Len(seq)], f)

RECURSIVE InsertAscBy(_, _, _)
\* one step of a stable sort with comparator (a, b) => a[f] - b[f]
InsertAscBy(sorted, x, f) ==
    IF sorted = <<>> THEN <<x>>
    ELSE IF Head(sorted)[f] <= x[f]
         THEN <<Head(sorted)>> \o InsertAscBy(Tail(sorted), x, f)
         ELSE <<x>> \o sorted

RECURSIVE SortAscBy(_, _)
\* Array.prototype.sort((a, b) => a[f] - b[f]), which is stable
SortAscBy(seq, f) ==
    IF seq = <<>> THEN <<>>
    ELSE InsertAscBy(SortAscBy(SubSeq(seq, 1, Len(seq) - 1), f), seq[Len(seq)], f)

\* MemStorage.getRecentContents
getRecentContents(limit) == Slice0(SortDescBy(Values(contents), "createdAt"), limit)

\* MemStorage.getUpcomingScheduledPosts, called at time t
getUpcomingScheduledPosts(limit, t) ==
    Slice0(SortAscBy(SelectSeq(Values(scheduledPosts), LAMBDA post : post.scheduledTime > t),
                     "scheduledTime"),
           limit)

\* Number(req.query.limit) || 3: an absent or non-numeric limit and 0 give 3
LimitOf(q) == IF q = NULL THEN 3 ELSE IF q.v = 0 THEN 3 ELSE q.v

\* x !== undefined ? x : d, and x || d on an optional field of a parsed body
Field(body, f, d) == IF f \in DOMAIN body THEN body[f] ELSE d

\* MemStorage.createPlatform: the record stored under id
NewPlatform(id, ins) ==
    [id |-> id, name |-> ins.name, active |-> Field(ins, "active", TRUE), icon |-> ins.icon]

\* MemStorage.createAiConfig: the record stored under id
NewAiConfig(id, ins, t) ==
    [id |-> id, name |-> ins.name, modelType |-> ins.modelType, modelName |-> ins.modelName,
     active |-> Field(ins, "active", TRUE), settings |-> Field(ins, "settings", <<>>),
     capabilities |-> Field(ins, "capabilities", <<>>), lastUpdated |-> t,
     downloadStatus |-> Field(ins, "downloadStatus", "not_downloaded")]

\* MemStorage.updatePlatform: the record stored and returned
updatePlatform(existing, update) == Merge(existing, update)

\* MemStorage.updatePlatformAccount
updatePlatformAccount(existing, update) == Merge(existing, update)

\* MemStorage.updateContent
updateContent(existing, update) == Merge(existing, update)

\* MemStorage.updateScheduledPost
updateScheduledPost(existing, update) == Merge(existing, update)

\* MemStorage.updateTrendingTopic
updateTrendingTopic(existing, update) == Merge(existing, update)

\* MemStorage.updateScript
updateScript(existing, update) == Merge(existing, update)

\* updateAiConfig that leaves lastUpdated as it was
updateAiConfig_unstamped(existing, update, t) == Merge(existing, update)

\* MemStorage.updateAiConfig: { ...existingConfig, ...configUpdate, lastUpdated: new Date() }
updateAiConfig(existing, update, t) == Merge(Merge(existing, update), [lastUpdated |-> t])

----------------------------------------------------------------------------
(* The generation stubs *)

\* localImageGenerator.ts availableModels
AvailableImageModels ==
    [m \in {"svg-generator", "stable-diffusion-lite", "sketch-generator"} |->
        CASE m = "svg-generator" ->
                [supportedStyles  |-> <<"minimalist", "abstract", "cartoon">>,
                 supportedSizes   |-> <<"512x512", "1024x1024", "1280x720">>,
                 supportedFormats |-> <<"svg", "png">>]
          [] m = "stable-diffusion-lite" ->
                [supportedStyles  |-> <<"photorealistic", "artistic", "abstract">>,
                 supportedSizes   |-> <<"512x512", "768x768">>,
                 supportedFormats |-> <<"jpg", "png">>]
          [] OTHER ->
                [supportedStyles  |-> <<"minimalist", "cartoon">>,
                 supportedSizes   |-> <<"512x512", "1024x1024">>,
                 supportedFormats |-> <<"png", "svg">>]]

\* LocalTTS availableVoices
AvailableVoices ==
    {"professional-male", "professional-female", "casual-male", "casual-female",
     "energetic-male", "narrative-female"}

\* the requested value, whether the model lists it or not
SupportedOrFirst_asked(requested, supported) == requested

\* params.x && supported.includes(params.x) ? params.x : supported[0]
\* (an absent parameter is the empty string)
SupportedOrFirst(requested, supported) ==
    IF requested # "" /\ Includes(supported, requested) THEN requested ELSE supported[1]

\* LocalImageGenerator.generateImage: the value the returned promise resolves with
ImageResult(params, modelId, counter, timestamp) ==
    LET model  == AvailableImageModels[modelId]
        format == SupportedOrFirst(params.format, model.supportedFormats)
    IN  [imagePath |-> Path("/content/images", "img", counter, timestamp, format),
         prompt    |-> params.prompt,
         size      |-> SupportedOrFirst(params.size, model.supportedSizes),
         style     |-> SupportedOrFirst(params.style, model.supportedStyles),
         format    |-> format]

\* LocalImageGenerator.generateThumbnail: the value the returned promise resolves with
ThumbnailResult(topic, counter, timestamp) ==
    [thumbnailPath |-> Path("/content/thumbnails", "thumb", counter, timestamp, "png"),
     prompt |-> Text("Thumbnail image for content about", topic),
     size |-> "1280x720", style |-> "artistic"]

\* Math.round(x / 2) for a non-negative integer x: halves round up
RoundHalf(x) == (x + 1) \div 2

\* LocalLLM.generateVideoScript: the script has an introduction, sectionCount
\* sections and a conclusion, each under its own "# " header
VideoScript(topic, durationMinutes) ==
    [format |-> "video", about |-> topic, headers |-> Max(3, RoundHalf(durationMinutes)) + 2]

\* VideoGenerator.splitScriptIntoSections: one section per header with text under it;
\* a script without headers is a single section
SectionCount(script) == IF script.headers = 0 THEN 1 ELSE script.headers

----------------------------------------------------------------------------
(* POST /api/automation/create-content *)

\* a request slot before its request arrives
IdleRun ==
    [pc |-> "idle", req |-> NULL, topic |-> NULL, scriptContent |-> NULL, script |-> NULL,
     pending |-> NULL, audio |-> NULL, visuals |-> 0, res |-> NULL]

\* the request bodies: each optional field is absent (NULL) or present
Request(topic, platform, type, schedule) ==
    [topicId |-> topic, platformId |-> platform, contentType |-> type,
     scheduleImmediately |-> schedule]

\* topic resolution that falls back on a placeholder topic when the store is empty
ResolveTopic_placeholder(req) ==
    IF TruthyNum(req.topicId)
    THEN getTrendingTopic(req.topicId.v)
    ELSE LET topics == getTopTrendingTopics(1)
         IN  IF Len(topics) = 0
             THEN [id |-> 0, topic |-> "General", category |-> "", description |-> "",
                   trendScore |-> 0, discoveredAt |-> 0]
             ELSE topics[1]

\* topic resolution: NULL when the handler answers 404
ResolveTopic(req) ==
    IF TruthyNum(req.topicId)
    THEN getTrendingTopic(req.topicId.v)
    ELSE LET topics == getTopTrendingTopics(1)
         IN  IF Len(topics) = 0 THEN NULL ELSE topics[1]

\* requestSchema.parse accepts the body: contentType, when present, is one of the enum
ParsesCreateContent(req) ==
    IF req.contentType = NULL THEN TRUE ELSE req.contentType.v \in {"video", "image", "text"}

\* the body of the 404 answer
NotFoundError(req) ==
    IF TruthyNum(req.topicId) THEN "Topic not found" ELSE "No trending topics available"

\* request.contentType || "video"
ContentTypeOf(req) == IF req.contentType = NULL THEN "video" ELSE req.contentType.v

\* the argument of storage.createScript
ScriptInput(topic, scriptContent) ==
    [title |-> Text("Video about", topic.topic), topic |-> topic.topic, format |-> "video",
     content |-> scriptContent, duration |-> 300, tone |-> "educational",
     targetAudience |-> "general", status |-> "draft"]

\* the argument of localImageGenerator.generateImage in the image branch
ImageParams(topic) ==
    [prompt |-> Text("Create a visually appealing image about", topic.topic),
     size |-> "1024x1024", style |-> "artistic", format |-> ""]

\* the argument of localImageGenerator.generateImage in generateVisualElements
VisualParams ==
    [prompt |-> Text("Visual representing", ""), size |-> "1280x720", style |-> "artistic",
     format |-> ""]

\* the video branch's createContent argument with the id of the store's latest script
VideoContentInput_latestScript(topic, script, videoResult) ==
    [title |-> script.title,
     description |-> Text("Auto-generated video about", topic.topic),
     contentType |-> "video", status |-> "ready",
     filePath |-> videoResult.videoPath, thumbnailPath |-> videoResult.thumbnailPath,
     metadata |-> [format |-> videoResult.format, resolution |-> videoResult.resolution,
                   scriptId |-> scriptId - 1, topic |-> topic.topic, automated |-> TRUE]]

\* the argument of storage.createContent in the video branch
VideoContentInput(topic, script, videoResult) ==
    [title |-> script.title,
     description |-> Text("Auto-generated video about", topic.topic),
     contentType |-> "video", status |-> "ready",
     filePath |-> videoResult.videoPath, thumbnailPath |-> videoResult.thumbnailPath,
     metadata |-> [format |-> videoResult.format, resolution |-> videoResult.resolution,
                   scriptId |-> script.id, topic |-> topic.topic, automated |-> TRUE]]

\* the image branch's createContent argument without a thumbnail
ImageContentInput_noThumbnail(topic, image) ==
    [title |-> Text("Image about", topic.topic),
     description |-> IF topic.description # "" THEN Text(topic.description, "")
                     ELSE Text("An image about", topic.topic),
     contentType |-> "image", status |-> "ready",
     filePath |-> image.imagePath, thumbnailPath |-> NULL,
     metadata |-> [prompt |-> image.prompt, style |-> "artistic", size |-> image.size,
                   topic |-> topic.topic, automated |-> TRUE]]

\* the argument of storage.createContent in the image branch
ImageContentInput(topic, image) ==
    [title |-> Text("Image about", topic.topic),
     description |-> IF topic.description # "" THEN Text(topic.description, "")
                     ELSE Text("An image about", topic.topic),
     contentType |-> "image", status |-> "ready",
     filePath |-> image.imagePath, thumbnailPath |-> image.imagePath,
     metadata |-> [prompt |-> image.prompt, style |-> "artistic", size |-> image.size,
                   topic |-> topic.topic, automated |-> TRUE]]

\* the argument of storage.createContent in the text branch
TextContentInput(topic, postContent) ==
    [title |-> Text("Post about", topic.topic), description |-> postContent,
     contentType |-> "text", status |-> "ready", filePath |-> NULL, thumbnailPath |-> NULL,
     metadata |-> [topic |-> topic.topic, platform |-> "multiple", automated |-> TRUE]]

\* the scheduling condition without scheduleImmediately
WantsSchedule_platformOnly(req) == TruthyNum(req.platformId)

\* if (request.scheduleImmediately && request.platformId)
WantsSchedule(req) == TruthyBool(req.scheduleImmediately) /\ TruthyNum(req.platformId)

\* the createScheduledPost argument without the hour's delay
ScheduleInput_noDelay(content, account, t) ==
    [contentId |-> content.id, platformAccountId |-> account.id,
     scheduledTime |-> t, status |-> "pending"]

\* the argument of storage.createScheduledPost
ScheduleInput(content, account, t) ==
    [contentId |-> content.id, platformAccountId |-> account.id,
     scheduledTime |-> t + Hour, status |-> "pending"]

\* the account chosen among the accounts the store held at construction
AccountToScheduleOn_seed(req) ==
    LET accounts == IF WantsSchedule(req)
                    THEN SelectSeq(Values(SeedAccounts),
                                   LAMBDA account : account.platformId = req.platformId.v)
                    ELSE <<>>
    IN  IF Len(accounts) > 0 THEN accounts[1] ELSE NULL

\* the account the handler schedules on: accounts[0], NULL when there is none
AccountToScheduleOn(req) ==
    LET accounts == IF WantsSchedule(req)
                    THEN getPlatformAccountsByPlatform(req.platformId.v) ELSE <<>>
    IN  IF Len(accounts) > 0 THEN accounts[1] ELSE NULL

\* the handler from storage.createContent to res.status(201).json
CreateContentAndRespond(r, ins) ==
    LET run     == runs[r]
        content == NewContent(contentId, ins, now)
        account == AccountToScheduleOn(run.req)
        post    == IF account = NULL THEN NULL
                   ELSE NewScheduledPost(postId, ScheduleInput(content, account, now))
    IN  /\ contents' = MapSet(contents, content.id, content)
        /\ contentId' = contentId + 1
        /\ scheduledPosts' = IF post = NULL THEN scheduledPosts
                             ELSE MapSet(scheduledPosts, post.id, post)
        /\ postId' = IF post = NULL THEN postId ELSE postId + 1
        /\ runs' = [runs EXCEPT ![r] =
                      [run EXCEPT !.pc = "done", !.pending = NULL,
                                  !.res = [status |-> 201, topic |-> run.topic,
                                           script |-> run.script, content |-> content,
                                           scheduledPost |-> post]]]

\* the request arrives: validation, topic resolution and the first stub call
Start(r, req) ==
    /\ runs[r].pc = "idle"
    /\ IF r = 1 THEN TRUE ELSE runs[r - 1].pc # "idle"
    /\ LET parsed == ParsesCreateContent(req)
           topic  == IF parsed THEN ResolveTopic(req) ELSE NULL
           type   == IF parsed THEN ContentTypeOf(req) ELSE ""
           found  == topic # NULL
           base   == [IdleRun EXCEPT !.req = req, !.topic = topic]
       IN  /\ runs' = [runs EXCEPT ![r] =
                  IF ~parsed
                  THEN [base EXCEPT !.pc = "done",
                                    !.res = [status |-> 400, error |-> "ZodError"]]
                  ELSE IF ~found
                  THEN [base EXCEPT !.pc = "done",
                                    !.res = [status |-> 404, error |-> NotFoundError(req)]]
                  ELSE IF type = "video"
                  THEN [base EXCEPT !.pc = "generateScript",
                                    !.scriptContent = VideoScript(topic.topic, 5)]
                  ELSE IF type = "image"
                  THEN [base EXCEPT !.pc = "generateImage",
                                    !.pending = ImageResult(ImageParams(topic), imgActiveModel,
                                                            imageCounter, now)]
                  ELSE [base EXCEPT !.pc = "generateContent",
                                    !.pending = Text("social media", topic.topic)]]
           /\ llmProcessing' = IF found /\ type # "image" THEN TRUE ELSE llmProcessing
           /\ UNCHANGED <<llmActiveModel, llmDownloaded>>
           /\ imgProcessing' = IF found /\ type = "image" THEN TRUE ELSE imgProcessing
           /\ imageCounter' = IF found /\ type = "image" THEN imageCounter + 1 ELSE imageCounter
    /\ hist' = [hist EXCEPT ![r] = [topics |-> trendingTopics,
                                    during |-> {q \in Runs : runs[q].pc \notin {"idle", "done"}}]]
    /\ UNCHANGED <<storeVars, imgActiveModel, imgDownloaded, ttsVars, vidVars, now, ops, cfgVars, last>>

\* the voice generateVideo narrates with: request.voiceType || 'professional-male'
DefaultVoice == "professional-male"

\* localLLM.generateScript resolves: storage.createScript, then generateThumbnail is called
ScriptGenerated(r) ==
    /\ runs[r].pc = "generateScript"
    /\ LET run    == runs[r]
           script == NewScript(scriptId, ScriptInput(run.topic, run.scriptContent), now)
       IN  /\ scripts' = MapSet(scripts, script.id, script)
           /\ scriptId' = scriptId + 1
           /\ runs' = [runs EXCEPT ![r] =
                  [run EXCEPT !.pc = "generateThumbnail", !.script = script,
                              !.pending = ThumbnailResult(run.topic.topic, imageCounter, now)]]
    /\ llmProcessing' = FALSE
    /\ UNCHANGED <<llmActiveModel, llmDownloaded>>
    /\ imgProcessing' = TRUE
    /\ imageCounter' = imageCounter + 1
    /\ UNCHANGED <<trendingTopics, topicId, contents, contentId, scheduledPosts, postId,
                   platformAccounts, accountId, imgActiveModel, imgDownloaded,
                   ttsVars, vidVars, now, hist, ops, cfgVars, last>>

\* generateThumbnail resolves: videoGenerator.generateVideo is called and reaches
\* localTTS.textToAudio; an unknown voice that cannot be downloaded makes it throw,
\* generateVideo rethrows and the handler's catch answers 500
ThumbnailGenerated(r) ==
    /\ runs[r].pc = "generateThumbnail"
    /\ LET run    == runs[r]
           known  == DefaultVoice \in downloadedVoices
           usable == known \/ DefaultVoice \in AvailableVoices
       IN  /\ runs' = [runs EXCEPT ![r] =
                  IF ~usable
                  THEN [run EXCEPT !.pc = "done", !.pending = NULL,
                                   !.res = [status |-> 500, error |-> "Voice is not available"]]
                  ELSE IF ~known
                  THEN [run EXCEPT !.pc = "downloadVoice", !.pending = NULL]
                  ELSE [run EXCEPT !.pc = "textToAudio", !.pending = NULL,
                                   !.audio = Path("/content/audio", "tts", audioCounter, now, "mp3")]]
           /\ vidProcessing' = usable
           /\ audioCounter' = IF known THEN audioCounter + 1 ELSE audioCounter
    /\ imgProcessing' = FALSE
    /\ ttsProcessing' = TRUE
    /\ UNCHANGED <<storeVars, llmVars, imageCounter, imgActiveModel, imgDownloaded,
                   downloadedVoices, videoCounter, now, hist, ops, cfgVars, last>>

\* textToAudio resolves: generateVisualElements calls generateImage for the first
\* section (or, with no section, generateThumbnail is called at once)
AudioGenerated(r) ==
    /\ runs[r].pc = "textToAudio"
    /\ LET run == runs[r]
       IN  runs' = [runs EXCEPT ![r] =
               IF SectionCount(run.scriptContent) = 0
               THEN [run EXCEPT !.pc = "videoThumbnail",
                                !.pending = ThumbnailResult(run.topic.topic, imageCounter, now)]
               ELSE [run EXCEPT !.pc = "generateVisual", !.visuals = 0,
                                !.pending = ImageResult(VisualParams, imgActiveModel,
                                                        imageCounter, now)]]
    /\ ttsProcessing' = FALSE
    /\ imgProcessing' = TRUE
    /\ imageCounter' = imageCounter + 1
    /\ UNCHANGED <<storeVars, llmVars, imgActiveModel, imgDownloaded, audioCounter,
                   downloadedVoices, vidVars, now, hist, ops, cfgVars, last>>

\* generateImage resolves inside generateVisualElements: the next section's image
\* is requested, or after the last one generateVideo calls generateThumbnail
VisualGenerated(r) ==
    /\ runs[r].pc = "generateVisual"
    /\ LET run  == runs[r]
           done == run.visuals + 1
       IN  runs' = [runs EXCEPT ![r] =
               IF done < SectionCount(run.scriptContent)
               THEN [run EXCEPT !.visuals = done,
                                !.pending = ImageResult(VisualParams, imgActiveModel,
                                                        imageCounter, now)]
               ELSE [run EXCEPT !.pc = "videoThumbnail", !.visuals = done,
                                !.pending = ThumbnailResult(run.topic.topic, imageCounter, now)]]
    /\ imgProcessing' = TRUE
    /\ imageCounter' = imageCounter + 1
    /\ UNCHANGED <<storeVars, llmVars, imgActiveModel, imgDownloaded, ttsVars, vidVars,
                   now, hist, ops, cfgVars, last>>

\* generateThumbnail resolves inside generateVideo: compileVideo is called
VideoThumbnailGenerated(r) ==
    /\ runs[r].pc = "videoThumbnail"
    /\ LET run == runs[r]
       IN  runs' = [runs EXCEPT ![r] =
               [run EXCEPT !.pc = "compileVideo",
                           !.pending = [videoPath |-> Path("/content/videos", "video",
                                                           videoCounter, now, "mp4"),
                                        thumbnailPath |-> run.pending.thumbnailPath,
                                        format |-> "mp4", resolution |-> "720p"]]]
    /\ imgProcessing' = FALSE
    /\ videoCounter' = videoCounter + 1
    /\ UNCHANGED <<storeVars, llmVars, imageCounter, imgActiveModel, imgDownloaded, ttsVars,
                   vidProcessing, now, hist, ops, cfgVars, last>>

\* a compileVideo whose promise never resolves
VideoCompiled_pending(r) ==
    /\ runs[r].pc = "compileVideo"
    /\ UNCHANGED vars

\* compileVideo resolves: generateVideo returns, the Content record is created,
\* the post is scheduled and the handler answers 201
VideoCompiled(r) ==
    /\ runs[r].pc = "compileVideo"
    /\ "topicId" \in DOMAIN runs[r].req
    /\ CreateContentAndRespond(r, VideoContentInput(runs[r].topic, runs[r].script,
                                                     runs[r].pending))
    /\ vidProcessing' = FALSE
    /\ UNCHANGED <<trendingTopics, topicId, scripts, scriptId, platformAccounts, accountId,
                   llmVars, imgVars, ttsVars, videoCounter, now, hist, ops, cfgVars, last>>

\* generateImage resolves in the image branch
ImageGenerated(r) ==
    /\ runs[r].pc = "generateImage"
    /\ CreateContentAndRespond(r, ImageContentInput(runs[r].topic, runs[r].pending))
    /\ imgProcessing' = FALSE
    /\ UNCHANGED <<trendingTopics, topicId, scripts, scriptId, platformAccounts, accountId,
                   llmVars, imageCounter, imgActiveModel, imgDownloaded, ttsVars, vidVars,
                   now, hist, ops, cfgVars, last>>

\* a text branch that looks its topic up again when the generation is over
ContentGenerated_again(r) ==
    /\ runs[r].pc = "generateContent"
    /\ LET again == ResolveTopic(runs[r].req)
           topic == IF again = NULL THEN runs[r].topic ELSE again
       IN  CreateContentAndRespond(r, TextContentInput(topic, runs[r].pending))
    /\ llmProcessing' = FALSE
    /\ UNCHANGED <<llmActiveModel, llmDownloaded>>
    /\ UNCHANGED <<trendingTopics, topicId, scripts, scriptId, platformAccounts, accountId,
                   imgVars, ttsVars, vidVars, now, hist, ops, cfgVars, last>>

\* localLLM.generateContent resolves in the text branch
ContentGenerated(r) ==
    /\ runs[r].pc = "generateContent"
    /\ CreateContentAndRespond(r, TextContentInput(runs[r].topic, runs[r].pending))
    /\ llmProcessing' = FALSE
    /\ UNCHANGED <<llmActiveModel, llmDownloaded>>
    /\ UNCHANGED <<trendingTopics, topicId, scripts, scriptId, platformAccounts, accountId,
                   imgVars, ttsVars, vidVars, now, hist, ops, cfgVars, last>>

----------------------------------------------------------------------------
(* POST /api/ai/text-to-speech and POST /api/ai/generate-video *)

\* a body of the two routes; voice, format, resolution and style are left out, so
\* the handlers take their defaults
ScriptRequest(route, script) == [route |-> route, scriptId |-> script]

\* the handler up to its first await that yields: 400 without scriptId, 404 for an
\* unknown script, otherwise the script read from the store
ScriptOf(body) ==
    IF TruthyNum(body.scriptId) THEN MapGet(scripts, body.scriptId.v) ELSE NULL

\* the answer of the handler when it stops before generating
ScriptRequestError(body) ==
    IF ~TruthyNum(body.scriptId)
    THEN [status |-> 400, error |-> "Missing scriptId parameter"]
    ELSE [status |-> 404, error |-> "Script not found"]

\* storage.updateScript(script.id, update) on the store as it is now: nothing
\* happens when the script has been deleted
ScriptsAfterUpdate(id, update) ==
    IF id \in DOMAIN scripts
    THEN MapSet(scripts, id, updateScript(scripts[id], update))
    ELSE scripts

\* a body of POST /api/ai/text-to-speech with a voice; "" is an absent voice
TtsRequest(script, voice) ==
    [route |-> "/ai/text-to-speech", scriptId |-> script, voice |-> voice]

\* the voice a request narrates with: voice || "professional-male" in text-to-speech,
\* 'professional-male' where create-content and generate-video pass none
VoiceOf(req) == OrStr(Field(req, "voice", ""), DefaultVoice)

\* a downloadVoice that takes any voice id
CanAcquire_any(voice) == TRUE

\* LocalTTS.downloadVoice: only a voice of availableVoices can be downloaded
CanAcquire(voice) == voice \in AvailableVoices

\* POST /api/ai/text-to-speech arrives: the script is read and localTTS.scriptToAudio
\* is called.  textToAudio sets isProcessing; with a downloaded voice it names the
\* audio file and starts its timer; with another voice it awaits downloadVoice, which
\* starts a timer for a voice of availableVoices and returns false at once for any
\* other, and then textToAudio throws and the handler's catch answers 500
PostTextToSpeech(r, body) ==
    /\ runs[r].pc = "idle"
    /\ IF r = 1 THEN TRUE ELSE runs[r - 1].pc # "idle"
    /\ LET script == ScriptOf(body)
           voice  == VoiceOf(body)
           known  == voice \in downloadedVoices
           base   == [IdleRun EXCEPT !.req = body]
       IN  /\ runs' = [runs EXCEPT ![r] =
                  IF script = NULL
                  THEN [base EXCEPT !.pc = "done", !.res = ScriptRequestError(body)]
                  ELSE IF known
                  THEN [base EXCEPT !.pc = "scriptToAudio", !.script = script,
                                    !.audio = Path("/content/audio", "tts", audioCounter, now,
                                                   "mp3")]
                  ELSE IF CanAcquire(voice)
                  THEN [base EXCEPT !.pc = "downloadVoice", !.script = script]
                  ELSE [base EXCEPT !.pc = "done", !.script = script,
                                    !.res = [status |-> 500,
                                             error |-> "Voice is not available"]]]
           /\ ttsProcessing' = IF script = NULL THEN ttsProcessing ELSE TRUE
           /\ audioCounter' = IF script # NULL /\ known THEN audioCounter + 1
                              ELSE audioCounter
    /\ UNCHANGED <<storeVars, cfgVars, llmVars, imgVars, downloadedVoices, vidVars, now, hist,
                   ops, last>>

\* the timer of downloadVoice fires: the voice joins downloadedVoices and textToAudio
\* goes on to name the audio file and start its own timer
VoiceDownloaded(r) ==
    /\ runs[r].pc = "downloadVoice"
    /\ downloadedVoices' = downloadedVoices \cup {VoiceOf(runs[r].req)}
    /\ audioCounter' = audioCounter + 1
    /\ runs' = [runs EXCEPT ![r] =
           [runs[r] EXCEPT !.pc = IF Field(runs[r].req, "route", "") = "/ai/text-to-speech"
                                  THEN "scriptToAudio" ELSE "textToAudio",
                           !.audio = Path("/content/audio", "tts", audioCounter, now, "mp3")]]
    /\ UNCHANGED <<storeVars, cfgVars, llmVars, imgVars, ttsProcessing, vidVars, now, hist,
                   ops, last>>

\* a handler that writes back the script it read before the generation
TextToSpeechDone_stale(r) ==
    /\ runs[r].pc = "scriptToAudio"
    /\ LET run    == runs[r]
           update == [audioPath |-> run.audio, status |-> "finalized"]
           after  == IF run.script.id \in DOMAIN scripts
                     THEN MapSet(scripts, run.script.id, updateScript(run.script, update))
                     ELSE scripts
       IN  /\ scripts' = after
           /\ runs' = [runs EXCEPT ![r] =
                  [run EXCEPT !.pc = "done",
                              !.res = [status |-> 200,
                                       script |-> MapGet(after, run.script.id),
                                       audio |-> run.audio]]]
    /\ ttsProcessing' = FALSE
    /\ UNCHANGED <<trendingTopics, topicId, scriptId, contents, contentId, scheduledPosts,
                   postId, platformAccounts, accountId, cfgVars, llmVars, imgVars,
                   audioCounter, downloadedVoices, vidVars, now, hist, ops, last>>

\* scriptToAudio resolves in the text-to-speech handler: the script is updated with
\* the audio path and the status "finalized", and the handler answers
TextToSpeechDone(r) ==
    /\ runs[r].pc = "scriptToAudio"
    /\ LET run    == runs[r]
           update == [audioPath |-> run.audio, status |-> "finalized"]
           after  == ScriptsAfterUpdate(run.script.id, update)
       IN  /\ scripts' = after
           /\ runs' = [runs EXCEPT ![r] =
                  [run EXCEPT !.pc = "done",
                              !.res = [status |-> 200,
                                       script |-> MapGet(after, run.script.id),
                                       audio |-> run.audio]]]
    /\ ttsProcessing' = FALSE
    /\ UNCHANGED <<trendingTopics, topicId, scriptId, contents, contentId, scheduledPosts,
                   postId, platformAccounts, accountId, cfgVars, llmVars, imgVars,
                   audioCounter, downloadedVoices, vidVars, now, hist, ops, last>>

\* POST /api/ai/generate-video arrives: the script is read and
\* videoGenerator.generateVideo is called, which reaches localTTS.textToAudio; the
\* thumbnail prompt is built around the script's topic
PostGenerateVideo(r, body) ==
    /\ runs[r].pc = "idle"
    /\ IF r = 1 THEN TRUE ELSE runs[r - 1].pc # "idle"
    /\ LET script == ScriptOf(body)
           base   == [IdleRun EXCEPT !.req = body]
       IN  /\ runs' = [runs EXCEPT ![r] =
                  IF script = NULL
                  THEN [base EXCEPT !.pc = "done", !.res = ScriptRequestError(body)]
                  ELSE [base EXCEPT !.pc = "textToAudio", !.script = script,
                                    !.scriptContent = script.content,
                                    !.topic = [topic |-> script.topic],
                                    !.audio = Path("/content/audio", "tts", audioCounter, now,
                                                   "mp3")]]
           /\ vidProcessing' = IF script = NULL THEN vidProcessing ELSE TRUE
           /\ ttsProcessing' = IF script = NULL THEN ttsProcessing ELSE TRUE
           /\ audioCounter' = IF script = NULL THEN audioCounter ELSE audioCounter + 1
    /\ UNCHANGED <<storeVars, cfgVars, llmVars, imgVars, downloadedVoices, videoCounter, now,
                   hist, ops, last>>

\* the argument of storage.createContent in the generate-video handler
ScriptVideoContentInput(script, videoResult) ==
    [title |-> script.title,
     description |-> Text("Auto-generated video about", script.topic),
     contentType |-> "video", status |-> "ready",
     filePath |-> videoResult.videoPath, thumbnailPath |-> videoResult.thumbnailPath,
     metadata |-> [format |-> videoResult.format, resolution |-> videoResult.resolution,
                   scriptId |-> script.id]]

\* compileVideo resolves in the generate-video handler: generateVideo returns, the
\* Content record is created, the script becomes "converted" and the handler
\* answers 201
GenerateVideoDone(r) ==
    /\ runs[r].pc = "compileVideo"
    /\ "scriptId" \in DOMAIN runs[r].req
    /\ LET run     == runs[r]
           content == NewContent(contentId, ScriptVideoContentInput(run.script, run.pending),
                                 now)
       IN  /\ contents' = MapSet(contents, content.id, content)
           /\ contentId' = contentId + 1
           /\ scripts' = ScriptsAfterUpdate(run.script.id, [status |-> "converted"])
           /\ runs' = [runs EXCEPT ![r] =
                  [run EXCEPT !.pc = "done", !.pending = NULL,
                              !.res = [status |-> 201, content |-> content,
                                       video |-> run.pending]]]
    /\ vidProcessing' = FALSE
    /\ UNCHANGED <<trendingTopics, topicId, scriptId, scheduledPosts, postId, platformAccounts,
                   accountId, cfgVars, llmVars, imgVars, ttsVars, videoCounter, now, hist, ops,
                   last>>

----------------------------------------------------------------------------
(* The other requests of the API that change what create-content reads *)

\* POST /api/trending-topics
PostTrendingTopic(ins) ==
    /\ ops < MaxOps
    /\ trendingTopics' = MapSet(trendingTopics, topicId, NewTrendingTopic(topicId, ins, now))
    /\ topicId' = topicId + 1
    /\ ops' = ops + 1
    /\ UNCHANGED <<scripts, scriptId, contents, contentId, scheduledPosts, postId,
                   platformAccounts, accountId, stubVars, now, runs, hist, cfgVars>>

\* PUT /api/trending-topics/:id on an existing topic
PutTrendingTopic(id, update) ==
    /\ ops < MaxOps
    /\ id \in DOMAIN trendingTopics
    /\ trendingTopics' = MapSet(trendingTopics, id, Merge(trendingTopics[id], update))
    /\ ops' = ops + 1
    /\ UNCHANGED <<topicId, scripts, scriptId, contents, contentId, scheduledPosts, postId,
                   platformAccounts, accountId, stubVars, now, runs, hist, cfgVars>>

\* DELETE /api/trending-topics/:id on an existing topic
DeleteTrendingTopic(id) ==
    /\ ops < MaxOps
    /\ id \in DOMAIN trendingTopics
    /\ trendingTopics' = MapDelete(trendingTopics, id)
    /\ ops' = ops + 1
    /\ UNCHANGED <<topicId, scripts, scriptId, contents, contentId, scheduledPosts, postId,
                   platformAccounts, accountId, stubVars, now, runs, hist, cfgVars>>

\* POST /api/platform-accounts
PostPlatformAccount(ins) ==
    /\ ops < MaxOps
    /\ platformAccounts' = MapSet(platformAccounts, accountId, NewPlatformAccount(accountId, ins))
    /\ accountId' = accountId + 1
    /\ ops' = ops + 1
    /\ UNCHANGED <<trendingTopics, topicId, scripts, scriptId, contents, contentId,
                   scheduledPosts, postId, stubVars, now, runs, hist, cfgVars>>

\* PUT /api/platform-accounts/:id on an existing account
PutPlatformAccount(id, update) ==
    /\ ops < MaxOps
    /\ id \in DOMAIN platformAccounts
    /\ platformAccounts' = MapSet(platformAccounts, id, Merge(platformAccounts[id], update))
    /\ ops' = ops + 1
    /\ UNCHANGED <<trendingTopics, topicId, scripts, scriptId, contents, contentId,
                   scheduledPosts, postId, accountId, stubVars, now, runs, hist, cfgVars>>

\* DELETE /api/platform-accounts/:id on an existing account
DeletePlatformAccount(id) ==
    /\ ops < MaxOps
    /\ id \in DOMAIN platformAccounts
    /\ platformAccounts' = MapDelete(platformAccounts, id)
    /\ ops' = ops + 1
    /\ UNCHANGED <<trendingTopics, topicId, scripts, scriptId, contents, contentId,
                   scheduledPosts, postId, accountId, stubVars, now, runs, hist, cfgVars>>

----------------------------------------------------------------------------
(* The routes over the stored entities.  Each records its exchange in last: *)
(* the route, the :id parameter (when the route has one), the parsed body,  *)
(* the record before, the status and the body of the answer.                *)

Exchange(route, id, body, before, status, answer) ==
    [route |-> route, id |-> id, body |-> body, before |-> before, status |-> status,
     answer |-> answer]

\* POST /api/platforms
PostPlatform(ins) ==
    /\ ops < MaxOps
    /\ platforms' = MapSet(platforms, nextPlatformId, NewPlatform(nextPlatformId, ins))
    /\ nextPlatformId' = nextPlatformId + 1
    /\ ops' = ops + 1
    /\ last' = Exchange("POST /api/platforms", NULL, ins, NULL, 201,
                        NewPlatform(nextPlatformId, ins))
    /\ UNCHANGED <<storeVars, aiConfigs, aiConfigId, stubVars, now, runs, hist>>

\* PUT /api/platforms/:id on an existing platform
PutPlatform(id, update) ==
    /\ ops < MaxOps
    /\ id \in DOMAIN platforms
    /\ platforms' = MapSet(platforms, id, updatePlatform(platforms[id], update))
    /\ ops' = ops + 1
    /\ last' = Exchange("PUT /api/platforms/:id", Some(id), update, platforms[id], 200,
                        updatePlatform(platforms[id], update))
    /\ UNCHANGED <<storeVars, nextPlatformId, aiConfigs, aiConfigId, stubVars, now, runs, hist>>

\* DELETE /api/platforms/:id on an existing platform
DeletePlatform(id) ==
    /\ ops < MaxOps
    /\ id \in DOMAIN platforms
    /\ platforms' = MapDelete(platforms, id)
    /\ ops' = ops + 1
    /\ last' = Exchange("DELETE /api/platforms/:id", Some(id), NULL, platforms[id], 204, NULL)
    /\ UNCHANGED <<storeVars, nextPlatformId, aiConfigs, aiConfigId, stubVars, now, runs, hist>>

\* POST /api/content
PostContent(ins) ==
    /\ ops < MaxOps
    /\ contents' = MapSet(contents, contentId, NewContent(contentId, ins, now))
    /\ contentId' = contentId + 1
    /\ ops' = ops + 1
    /\ last' = Exchange("POST /api/content", NULL, ins, NULL, 201,
                        NewContent(contentId, ins, now))
    /\ UNCHANGED <<trendingTopics, topicId, scripts, scriptId, scheduledPosts, postId,
                   platformAccounts, accountId, cfgVars, stubVars, now, runs, hist>>

\* PUT /api/content/:id on an existing content
PutContent(id, update) ==
    /\ ops < MaxOps
    /\ id \in DOMAIN contents
    /\ contents' = MapSet(contents, id, updateContent(contents[id], update))
    /\ ops' = ops + 1
    /\ last' = Exchange("PUT /api/content/:id", Some(id), update, contents[id], 200,
                        updateContent(contents[id], update))
    /\ UNCHANGED <<trendingTopics, topicId, scripts, scriptId, contentId, scheduledPosts,
                   postId, platformAccounts, accountId, cfgVars, stubVars, now, runs, hist>>

\* a delete that gives the id back when it was the last one assigned
DeleteContent_release(id) ==
    /\ ops < MaxOps
    /\ id \in DOMAIN contents
    /\ contents' = MapDelete(contents, id)
    /\ contentId' = IF id = contentId - 1 THEN id ELSE contentId
    /\ ops' = ops + 1
    /\ last' = Exchange("DELETE /api/content/:id", Some(id), NULL, contents[id], 204, NULL)
    /\ UNCHANGED <<trendingTopics, topicId, scripts, scriptId, scheduledPosts,
                   postId, platformAccounts, accountId, cfgVars, stubVars, now, runs, hist>>

\* a delete that takes the scheduled posts of the content with it
DeleteContent_cascade(id) ==
    /\ ops < MaxOps
    /\ id \in DOMAIN contents
    /\ contents' = MapDelete(contents, id)
    /\ scheduledPosts' = [p \in {q \in DOMAIN scheduledPosts : scheduledPosts[q].contentId # id}
                            |-> scheduledPosts[p]]
    /\ ops' = ops + 1
    /\ last' = Exchange("DELETE /api/content/:id", Some(id), NULL, contents[id], 204, NULL)
    /\ UNCHANGED <<trendingTopics, topicId, scripts, scriptId, contentId,
                   postId, platformAccounts, accountId, cfgVars, stubVars, now, runs, hist>>

\* DELETE /api/content/:id on an existing content
DeleteContent(id) ==
    /\ ops < MaxOps
    /\ id \in DOMAIN contents
    /\ contents' = MapDelete(contents, id)
    /\ ops' = ops + 1
    /\ last' = Exchange("DELETE /api/content/:id", Some(id), NULL, contents[id], 204, NULL)
    /\ UNCHANGED <<trendingTopics, topicId, scripts, scriptId, contentId, scheduledPosts,
                   postId, platformAccounts, accountId, cfgVars, stubVars, now, runs, hist>>

\* PUT /api/scheduled-posts/:id on an existing post
PutScheduledPost(id, update) ==
    /\ ops < MaxOps
    /\ id \in DOMAIN scheduledPosts
    /\ scheduledPosts' = MapSet(scheduledPosts, id, updateScheduledPost(scheduledPosts[id], update))
    /\ ops' = ops + 1
    /\ last' = Exchange("PUT /api/scheduled-posts/:id", Some(id), update, scheduledPosts[id], 200,
                        updateScheduledPost(scheduledPosts[id], update))
    /\ UNCHANGED <<trendingTopics, topicId, scripts, scriptId, contents, contentId,
                   postId, platformAccounts, accountId, cfgVars, stubVars, now, runs, hist>>

\* DELETE /api/scheduled-posts/:id on an existing post
DeleteScheduledPost(id) ==
    /\ ops < MaxOps
    /\ id \in DOMAIN scheduledPosts
    /\ scheduledPosts' = MapDelete(scheduledPosts, id)
    /\ ops' = ops + 1
    /\ last' = Exchange("DELETE /api/scheduled-posts/:id", Some(id), NULL, scheduledPosts[id], 204,
                        NULL)
    /\ UNCHANGED <<trendingTopics, topicId, scripts, scriptId, contents, contentId,
                   postId, platformAccounts, accountId, cfgVars, stubVars, now, runs, hist>>

\* POST /api/scripts
PostScript(ins) ==
    /\ ops < MaxOps
    /\ scripts' = MapSet(scripts, scriptId, NewScript(scriptId, ins, now))
    /\ scriptId' = scriptId + 1
    /\ ops' = ops + 1
    /\ last' = Exchange("POST /api/scripts", NULL, ins, NULL, 201,
                        NewScript(scriptId, ins, now))
    /\ UNCHANGED <<trendingTopics, topicId, contents, contentId, scheduledPosts, postId,
                   platformAccounts, accountId, cfgVars, stubVars, now, runs, hist>>

\* PATCH /api/scripts/:id on an existing script
PatchScript(id, update) ==
    /\ ops < MaxOps
    /\ id \in DOMAIN scripts
    /\ scripts' = MapSet(scripts, id, updateScript(scripts[id], update))
    /\ ops' = ops + 1
    /\ last' = Exchange("PATCH /api/scripts/:id", Some(id), update, scripts[id], 200,
                        updateScript(scripts[id], update))
    /\ UNCHANGED <<trendingTopics, topicId, scriptId, contents, contentId, scheduledPosts,
                   postId, platformAccounts, accountId, cfgVars, stubVars, now, runs, hist>>

\* DELETE /api/scripts/:id on an existing script
DeleteScript(id) ==
    /\ ops < MaxOps
    /\ id \in DOMAIN scripts
    /\ scripts' = MapDelete(scripts, id)
    /\ ops' = ops + 1
    /\ last' = Exchange("DELETE /api/scripts/:id", Some(id), NULL, scripts[id], 204, NULL)
    /\ UNCHANGED <<trendingTopics, topicId, scriptId, contents, contentId, scheduledPosts,
                   postId, platformAccounts, accountId, cfgVars, stubVars, now, runs, hist>>

\* POST /api/ai-configs
PostAiConfig(ins) ==
    /\ ops < MaxOps
    /\ aiConfigs' = MapSet(aiConfigs, aiConfigId, NewAiConfig(aiConfigId, ins, now))
    /\ aiConfigId' = aiConfigId + 1
    /\ ops' = ops + 1
    /\ last' = Exchange("POST /api/ai-configs", NULL, ins, NULL, 201,
                        NewAiConfig(aiConfigId, ins, now))
    /\ UNCHANGED <<storeVars, platforms, nextPlatformId, stubVars, now, runs, hist>>

\* PATCH /api/ai-configs/:id on an existing configuration
PatchAiConfig(id, update) ==
    /\ ops < MaxOps
    /\ id \in DOMAIN aiConfigs
    /\ aiConfigs' = MapSet(aiConfigs, id, updateAiConfig(aiConfigs[id], update, now))
    /\ ops' = ops + 1
    /\ last' = Exchange("PATCH /api/ai-configs/:id", Some(id), update, aiConfigs[id], 200,
                        updateAiConfig(aiConfigs[id], update, now))
    /\ UNCHANGED <<storeVars, platforms, nextPlatformId, aiConfigId, stubVars, now, runs, hist>>

\* DELETE /api/ai-configs/:id on an existing configuration
DeleteAiConfig(id) ==
    /\ ops < MaxOps
    /\ id \in DOMAIN aiConfigs
    /\ aiConfigs' = MapDelete(aiConfigs, id)
    /\ ops' = ops + 1
    /\ last' = Exchange("DELETE /api/ai-configs/:id", Some(id), NULL, aiConfigs[id], 204, NULL)
    /\ UNCHANGED <<storeVars, platforms, nextPlatformId, aiConfigId, stubVars, now, runs, hist>>

\* an ISO datetime string of a JSON body, for the instant t
Iso(t) == [iso |-> t]
\* new Date(isoString)
DateOf(s) == s.iso
\* z.date() on a value of a JSON body: a string is not a Date object
IsDate(x) == "iso" \notin DOMAIN x

\* insertScheduledPostSchema.parse(req.body) succeeds: drizzle-zod turns the timestamp
\* column scheduledTime into z.date()
ParsesInsertScheduledPost(body) ==
    /\ {"contentId", "platformAccountId", "scheduledTime"} \subseteq DOMAIN body
    /\ IsDate(body.scheduledTime)

\* POST /api/scheduled-posts
PostScheduledPost(body) ==
    /\ ops < MaxOps
    /\ ops' = ops + 1
    /\ IF ParsesInsertScheduledPost(body)
       THEN /\ scheduledPosts' = MapSet(scheduledPosts, postId, NewScheduledPost(postId, body))
            /\ postId' = postId + 1
            /\ last' = Exchange("POST /api/scheduled-posts", NULL, body, NULL, 201,
                                NewScheduledPost(postId, body))
       ELSE /\ UNCHANGED <<scheduledPosts, postId>>
            /\ last' = Exchange("POST /api/scheduled-posts", NULL, body, NULL, 400,
                                [message |-> "Validation failed"])
    /\ UNCHANGED <<trendingTopics, topicId, scripts, scriptId, contents, contentId,
                   platformAccounts, accountId, cfgVars, stubVars, now, runs, hist>>

\* the checks of /schedule without the one on the platform account
ScheduleError_contentOnly(request) ==
    IF MapGet(contents, request.contentId) = NULL THEN "Content not found" ELSE ""

\* POST /api/automation/schedule: the error of the 404 answer, "" when both the
\* content and the platform account exist
ScheduleError(request) ==
    IF MapGet(contents, request.contentId) = NULL THEN "Content not found"
    ELSE IF MapGet(platformAccounts, request.platformAccountId) = NULL
         THEN "Platform account not found"
         ELSE ""

\* POST /api/automation/schedule: the argument of createScheduledPost
SchedulePostInput(request) ==
    [contentId |-> request.contentId, platformAccountId |-> request.platformAccountId,
     scheduledTime |-> DateOf(request.scheduledTime),
     status |-> OrStr(request.status, "pending")]

\* POST /api/automation/schedule with a body that passes requestSchema.parse
PostAutomationSchedule(request) ==
    /\ ops < MaxOps
    /\ ops' = ops + 1
    /\ IF ScheduleError(request) # ""
       THEN /\ UNCHANGED <<scheduledPosts, postId>>
            /\ last' = Exchange("POST /api/automation/schedule", NULL, request, NULL, 404,
                                [error |-> ScheduleError(request)])
       ELSE /\ scheduledPosts' = MapSet(scheduledPosts, postId,
                                        NewScheduledPost(postId, SchedulePostInput(request)))
            /\ postId' = postId + 1
            /\ last' = Exchange("POST /api/automation/schedule", NULL, request, NULL, 201,
                                NewScheduledPost(postId, SchedulePostInput(request)))
    /\ UNCHANGED <<trendingTopics, topicId, scripts, scriptId, contents, contentId,
                   platformAccounts, accountId, cfgVars, stubVars, now, runs, hist>>

\* GET /api/content/recent?limit=q
GetRecentContents(q) ==
    /\ last' = Exchange("GET /api/content/recent", NULL, [limit |-> q], NULL, 200,
                        getRecentContents(LimitOf(q)))
    /\ UNCHANGED <<storeVars, cfgVars, stubVars, now, runs, hist, ops>>

\* GET /api/trending-topics/top?limit=q
GetTopTrendingTopics(q) ==
    /\ last' = Exchange("GET /api/trending-topics/top", NULL, [limit |-> q], NULL, 200,
                        getTopTrendingTopics(LimitOf(q)))
    /\ UNCHANGED <<storeVars, cfgVars, stubVars, now, runs, hist, ops>>

\* GET /api/scheduled-posts/upcoming?limit=q
GetUpcomingScheduledPosts(q) ==
    /\ last' = Exchange("GET /api/scheduled-posts/upcoming", NULL, [limit |-> q], NULL, 200,
                        getUpcomingScheduledPosts(LimitOf(q), now))
    /\ UNCHANGED <<storeVars, cfgVars, stubVars, now, runs, hist, ops>>

\* GET /api/automation/queue
GetAutomationQueue ==
    /\ last' = Exchange("GET /api/automation/queue", NULL, NULL, NULL, 200,
                        [queueSize |-> Len(getUpcomingScheduledPosts(10, now)),
                         upcomingPosts |-> getUpcomingScheduledPosts(10, now)])
    /\ UNCHANGED <<storeVars, cfgVars, stubVars, now, runs, hist, ops>>

\* time passes
Tick ==
    /\ now < MaxClock
    /\ now' = now + 1
    /\ UNCHANGED <<storeVars, stubVars, runs, hist, ops, cfgVars, last>>

----------------------------------------------------------------------------
(* The state after the modules are loaded: new MemStorage() and the stub singletons *)

Init ==
    /\ trendingTopics = SeedTopics /\ topicId = 4
    /\ scripts = SeedScripts /\ scriptId = 3
    /\ contents = SeedContents /\ contentId = 7
    /\ scheduledPosts = SeedPosts /\ postId = 4
    /\ platformAccounts = SeedAccounts /\ accountId = 4
    /\ platforms = SeedPlatforms /\ nextPlatformId = 4
    /\ aiConfigs = SeedAiConfigs /\ aiConfigId = 4
    /\ llmProcessing = FALSE
    /\ llmActiveModel = "llama3-small" /\ llmDownloaded = {"llama3-small"}
    /\ imgProcessing = FALSE /\ imageCounter = 1
    /\ imgActiveModel = "svg-generator" /\ imgDownloaded = {"svg-generator"}
    /\ ttsProcessing = FALSE /\ audioCounter = 1
    /\ downloadedVoices = {"professional-male", "professional-female"}
    /\ vidProcessing = FALSE /\ videoCounter = 1
    /\ now = 0
    /\ runs = [r \in Runs |-> IdleRun]
    /\ hist = [r \in Runs |-> NULL]
    /\ ops = 0
    /\ last = NULL

----------------------------------------------------------------------------
(* Specifications: the handlers under several sets of requests *)

\* trendScore values of created and updated topics: below every seed score, and
\* equal to the highest seed score
TopicScores == {50, 92}

\* topicId values of requests: absent, 0, a seed topic, the first id not yet assigned
TopicIdInputs == {NULL, Some(0), Some(2), Some(4)}

\* platformId values of requests: absent, a platform with a seed account, one without
PlatformIdInputs == {NULL, Some(1), Some(4)}

TopicInput(score) ==
    [topic |-> "Test", category |-> "Tech", description |-> "", trendScore |-> score]

AccountInput(platform, active) ==
    [platformId |-> platform, name |-> "Test", username |-> "test", active |-> active]

\* topic resolution against a changing set of topics (text branch)
NextTopics ==
    \/ \E r \in Runs, t \in TopicIdInputs : Start(r, Request(t, NULL, Some("text"), NULL))
    \/ \E r \in Runs : ContentGenerated(r)
    \/ UNCHANGED last /\ \E score \in TopicScores : PostTrendingTopic(TopicInput(score))
    \/ UNCHANGED last /\ \E id \in 1..3, score \in TopicScores :
          PutTrendingTopic(id, [trendScore |-> score])
    \/ UNCHANGED last /\ \E id \in 1..4 : DeleteTrendingTopic(id)

SpecTopics == Init /\ [][NextTopics]_vars

\* interleaved runs of the three branches
NextRuns ==
    \/ \E r \in Runs, t \in {NULL, Some(2)},
          c \in {NULL, Some("video"), Some("image"), Some("text")} :
          Start(r, Request(t, NULL, c, NULL))
    \/ \E r \in Runs : ScriptGenerated(r)
    \/ \E r \in Runs : ThumbnailGenerated(r)
    \/ \E r \in Runs : AudioGenerated(r)
    \/ \E r \in Runs : VisualGenerated(r)
    \/ \E r \in Runs : VideoThumbnailGenerated(r)
    \/ \E r \in Runs : VideoCompiled(r)
    \/ \E r \in Runs : ImageGenerated(r)
    \/ \E r \in Runs : ContentGenerated(r)

SpecRuns == Init /\ [][NextRuns]_vars

\* the three branches and the scheduling step against a changing set of accounts
NextSchedule ==
    \/ \E p \in PlatformIdInputs, c \in {NULL, Some("image"), Some("text")},
          s \in {NULL, Some(TRUE), Some(FALSE)} :
          Start(1, Request(NULL, p, c, s))
    \/ ScriptGenerated(1)
    \/ ThumbnailGenerated(1)
    \/ AudioGenerated(1)
    \/ VisualGenerated(1)
    \/ VideoThumbnailGenerated(1)
    \/ VideoCompiled(1)
    \/ ImageGenerated(1)
    \/ ContentGenerated(1)
    \/ ops < MaxScheduleOps /\ UNCHANGED last
          /\ \E p \in {1, 4}, a \in BOOLEAN : PostPlatformAccount(AccountInput(p, a))
    \/ ops < MaxScheduleOps /\ UNCHANGED last
          /\ \E id \in 1..4, u \in {[active |-> FALSE], [platformId |-> 4]} :
                PutPlatformAccount(id, u)
    \/ ops < MaxScheduleOps /\ UNCHANGED last /\ \E id \in 1..4 : DeletePlatformAccount(id)
    \/ Tick

SpecSchedule == Init /\ [][NextSchedule]_vars

\* bodies of the store routes, as the insert schemas parse them
PlatformInput == [name |-> "Test", icon |-> "tag"]

ContentInput ==
    [title |-> Text("Test", ""), description |-> Text("", ""), contentType |-> "text",
     status |-> "", filePath |-> NULL, thumbnailPath |-> NULL, metadata |-> NULL]

ScriptBody ==
    [title |-> "Test", topic |-> "Test", format |-> "video",
     content |-> [format |-> "video", about |-> "Test", headers |-> 2],
     duration |-> 60, tone |-> "casual", targetAudience |-> "everyone", status |-> ""]

AiConfigInput == [name |-> "Test", modelType |-> "llm", modelName |-> "mistral"]

\* trendScore values sent to the topic routes: inside and outside 1..100
StoreScores == {60, 150}

\* ids named by the update and delete requests: a seed record and the first new one
StoreIds == {1, 4}

\* a body of POST /api/automation/schedule; an absent status is the empty string
ScheduleRequest(content, account, time, status) ==
    [contentId |-> content, platformAccountId |-> account, scheduledTime |-> Iso(time),
     status |-> status]

\* creates, updates and deletes on every entity type, with time passing
NextStore ==
    \/ \E score \in StoreScores :
          /\ PostTrendingTopic(TopicInput(score))
          /\ last' = Exchange("POST /api/trending-topics", NULL, TopicInput(score), NULL, 201,
                              NewTrendingTopic(topicId, TopicInput(score), now))
    \/ \E id \in StoreIds, u \in {[trendScore |-> 0], [category |-> "AI"]} :
          /\ PutTrendingTopic(id, u)
          /\ last' = Exchange("PUT /api/trending-topics/:id", Some(id), u, trendingTopics[id], 200,
                              updateTrendingTopic(trendingTopics[id], u))
    \/ \E id \in StoreIds :
          /\ DeleteTrendingTopic(id)
          /\ last' = Exchange("DELETE /api/trending-topics/:id", Some(id), NULL, trendingTopics[id],
                              204, NULL)
    \/ /\ PostPlatformAccount(AccountInput(1, TRUE))
       /\ last' = Exchange("POST /api/platform-accounts", NULL, AccountInput(1, TRUE), NULL, 201,
                           NewPlatformAccount(accountId, AccountInput(1, TRUE)))
    \/ \E id \in StoreIds, u \in {[active |-> FALSE], [name |-> "Renamed"]} :
          /\ PutPlatformAccount(id, u)
          /\ last' = Exchange("PUT /api/platform-accounts/:id", Some(id), u, platformAccounts[id], 200,
                              updatePlatformAccount(platformAccounts[id], u))
    \/ \E id \in StoreIds :
          /\ DeletePlatformAccount(id)
          /\ last' = Exchange("DELETE /api/platform-accounts/:id", Some(id), NULL,
                              platformAccounts[id], 204, NULL)
    \/ PostPlatform(PlatformInput)
    \/ \E id \in StoreIds, u \in {[active |-> FALSE], [name |-> "Renamed"]} : PutPlatform(id, u)
    \/ \E id \in StoreIds : DeletePlatform(id)
    \/ PostContent(ContentInput)
    \/ \E id \in {1, 7}, u \in {[status |-> "archived"], [filePath |-> NULL]} : PutContent(id, u)
    \/ \E id \in {1, 7, 8} : DeleteContent(id)
    \/ \E id \in StoreIds, u \in {[status |-> "posted"], [contentId |-> 1]} :
          PutScheduledPost(id, u)
    \/ \E id \in StoreIds : DeleteScheduledPost(id)
    \/ \E request \in {ScheduleRequest(1, 1, 3 * Hour, ""), ScheduleRequest(4, 1, 1, ""),
                        ScheduleRequest(1, 4, 1, "draft")} :
          PostAutomationSchedule(request)
    \/ \E body \in {[contentId |-> 9, platformAccountId |-> 9, scheduledTime |-> Iso(1)],
                     [contentId |-> 1, platformAccountId |-> 1]} :
          PostScheduledPost(body)
    \/ PostScript(ScriptBody)
    \/ \E id \in {1, 3}, u \in {[status |-> "finalized"], [tone |-> "formal"]} : PatchScript(id, u)
    \/ \E id \in {1, 3} : DeleteScript(id)
    \/ PostAiConfig(AiConfigInput)
    \/ \E id \in StoreIds, u \in {[active |-> FALSE], [downloadStatus |-> "downloaded"]} :
          PatchAiConfig(id, u)
    \/ \E id \in StoreIds : DeleteAiConfig(id)
    \/ Tick

SpecStore == Init /\ [][NextStore]_vars

\* limit parameters of the query routes: absent, 0, negative, below and above the
\* number of stored records
LimitInputs == {NULL, Some(0), Some(0 - 1), Some(1), Some(2), Some(5)}

\* scheduledTime values of requests: not after the first instant, one tick after it,
\* between the seed posts
ScheduleTimes == {0, 1, 3 * Hour}

\* bodies of POST /api/automation/schedule: contents 1 and 2 exist from the seed and 4
\* is the content the first seed post names; account 4 exists once it has been created
ScheduleRequests ==
    {ScheduleRequest(c, a, t, s) :
        c \in {1, 4}, a \in {1, 4}, t \in ScheduleTimes, s \in {"", "draft"}}

\* the derived queries against a changing store
NextQueries ==
    \/ PostContent(ContentInput)
    \/ \E id \in {1, 7} : DeleteContent(id)
    \/ \E score \in TopicScores :
          /\ PostTrendingTopic(TopicInput(score))
          /\ last' = Exchange("POST /api/trending-topics", NULL, TopicInput(score), NULL, 201,
                              NewTrendingTopic(topicId, TopicInput(score), now))
    \/ \E request \in ScheduleRequests : PostAutomationSchedule(request)
    \/ \E q \in LimitInputs : GetRecentContents(q)
    \/ \E q \in LimitInputs : GetTopTrendingTopics(q)
    \/ \E q \in LimitInputs : GetUpcomingScheduledPosts(q)
    \/ GetAutomationQueue
    \/ Tick

SpecQueries == Init /\ [][NextQueries]_vars

\* scriptId values of the script routes: absent, the two seed scripts, no script
ScriptIdInputs == {NULL, Some(1), Some(2), Some(3)}

\* voice values of text-to-speech requests: absent, downloaded from the start,
\* available for download, not a voice of availableVoices
VoiceInputs == {"", "professional-female", "casual-male", "robot"}

\* text-to-speech and generate-video requests on the seed scripts, interleaved
NextScripts ==
    \/ \E r \in Runs, s \in ScriptIdInputs, v \in VoiceInputs :
          PostTextToSpeech(r, TtsRequest(s, v))
    \/ \E r \in Runs : VoiceDownloaded(r)
    \/ \E r \in Runs : TextToSpeechDone(r)
    \/ \E r \in Runs, s \in ScriptIdInputs :
          PostGenerateVideo(r, ScriptRequest("/ai/generate-video", s))
    \/ \E r \in Runs : AudioGenerated(r)
    \/ \E r \in Runs : VisualGenerated(r)
    \/ \E r \in Runs : VideoThumbnailGenerated(r)
    \/ \E r \in Runs : GenerateVideoDone(r)

SpecScripts == Init /\ [][NextScripts]_vars

----------------------------------------------------------------------------
(* Properties of POST /api/automation/create-content *)

\* request r has been answered 201
Succeeded(r) == runs[r].pc = "done" /\ runs[r].res.status = 201

\* request r is answered in this step
Answers(r) == runs[r].pc # "done" /\ runs'[r].pc = "done"

\* the values of a map
Range(map) == {map[i] : i \in DOMAIN map}

\* C1: a request without topicId, made while at least one topic exists, uses and
\* returns a topic of the store whose trendScore is the highest of all topics the
\* store held when the topic was resolved.
C1_TopTopicUsed ==
    \A r \in Runs :
        (runs[r].pc # "idle" /\ runs[r].req.topicId = NULL /\ DOMAIN hist[r].topics # {}) =>
            /\ runs[r].topic \in Range(hist[r].topics)
            /\ \A t \in Range(hist[r].topics) : t.trendScore <= runs[r].topic.trendScore
            /\ Succeeded(r) =>
                  /\ runs[r].res.topic = runs[r].topic
                  /\ runs[r].res.content.metadata.topic = runs[r].topic.topic

\* a request without topicId has been answered with a topic other than the seed's
\* top topic, chosen among several
C1_Witness ==
    \E r \in Runs :
        /\ Succeeded(r)
        /\ runs[r].req.topicId = NULL
        /\ Cardinality(DOMAIN hist[r].topics) >= 2
        /\ runs[r].res.topic.id # 3

\* C2: a request without topicId, made while the store holds no topic, is answered
\* with the not-found error in the same step, and the step leaves the scripts, the
\* contents and the scheduled posts as they were.
C2_NoTopicsNotFound ==
    [][\A r \in Runs :
          (runs[r].pc = "idle" /\ runs'[r].pc # "idle" /\ runs'[r].req.topicId = NULL
             /\ DOMAIN trendingTopics = {}) =>
              /\ runs'[r].pc = "done"
              /\ runs'[r].res = [status |-> 404, error |-> "No trending topics available"]
              /\ scripts' = scripts /\ scriptId' = scriptId
              /\ contents' = contents /\ contentId' = contentId
              /\ scheduledPosts' = scheduledPosts /\ postId' = postId]_vars

\* a request without topicId has met an empty store
C2_Witness ==
    \E r \in Runs :
        /\ runs[r].pc = "done"
        /\ runs[r].req.topicId = NULL
        /\ DOMAIN hist[r].topics = {}
        /\ runs[r].res.status = 404

\* C3: a request with a numeric topicId (0 included) that names no topic of the store
\* is answered with the not-found error; no other topic is substituted.
C3_UnknownTopicIdNotFound ==
    \A r \in Runs :
        (runs[r].pc # "idle" /\ runs[r].req.topicId # NULL
           /\ runs[r].req.topicId.v \notin DOMAIN hist[r].topics) =>
            /\ runs[r].pc = "done"
            /\ runs[r].res.status = 404
            /\ runs[r].topic = NULL

\* C4: every video request answered 201 has created one Script, stored with status
\* draft, and one Content, stored with contentType video and status ready, whose
\* metadata.scriptId is the id of that Script; the store holds one Script per request
\* that got past script generation and one Content per request answered 201, and no
\* two requests share a Script or a Content, however the requests interleave.
C4_OneScriptOneContent ==
    /\ \A r \in Runs :
          (Succeeded(r) /\ ContentTypeOf(runs[r].req) = "video") =>
              LET s == runs[r].res.script
                  c == runs[r].res.content
              IN  /\ s # NULL /\ s.id \in DOMAIN scripts /\ scripts[s.id] = s
                  /\ s.status = "draft"
                  /\ c.id \in DOMAIN contents /\ contents[c.id] = c
                  /\ c.contentType = "video" /\ c.status = "ready"
                  /\ c.metadata.scriptId = s.id
    /\ \A r1, r2 \in Runs :
          (r1 # r2 /\ runs[r1].script # NULL /\ runs[r2].script # NULL) =>
              runs[r1].script.id # runs[r2].script.id
    /\ \A r1, r2 \in Runs :
          (r1 # r2 /\ Succeeded(r1) /\ Succeeded(r2)) =>
              runs[r1].res.content.id # runs[r2].res.content.id
    /\ Cardinality(DOMAIN scripts) =
          Cardinality(DOMAIN SeedScripts) + Cardinality({r \in Runs : runs[r].script # NULL})
    /\ Cardinality(DOMAIN contents) =
          Cardinality(DOMAIN SeedContents) + Cardinality({r \in Runs : Succeeded(r)})

\* two video requests that overlapped have both been answered 201
C4_Witness ==
    \E r1, r2 \in Runs :
        /\ r1 # r2
        /\ Succeeded(r1) /\ Succeeded(r2)
        /\ ContentTypeOf(runs[r1].req) = "video" /\ ContentTypeOf(runs[r2].req) = "video"
        /\ r1 \in hist[r2].during

\* C5: a text request answered 201 has a Content with contentType text and a null
\* filePath, and has created no Script; an image request answered 201 has a Content
\* with a non-null filePath and a thumbnailPath equal to it.
C5_TextAndImageContent ==
    /\ \A r \in Runs :
          (runs[r].pc # "idle" /\ ContentTypeOf(runs[r].req) # "video") =>
              runs[r].script = NULL
    /\ Cardinality(DOMAIN scripts) =
          Cardinality(DOMAIN SeedScripts) + Cardinality({r \in Runs : runs[r].script # NULL})
    /\ \A r \in Runs :
          (Succeeded(r) /\ ContentTypeOf(runs[r].req) = "text") =>
              /\ runs[r].res.content.contentType = "text"
              /\ runs[r].res.content.filePath = NULL
              /\ runs[r].res.script = NULL
              /\ contents[runs[r].res.content.id] = runs[r].res.content
    /\ \A r \in Runs :
          (Succeeded(r) /\ ContentTypeOf(runs[r].req) = "image") =>
              /\ runs[r].res.content.contentType = "image"
              /\ runs[r].res.content.filePath # NULL
              /\ runs[r].res.content.thumbnailPath = runs[r].res.content.filePath
              /\ contents[runs[r].res.content.id] = runs[r].res.content

\* a text request and an image request have both been answered 201
C5_Witness ==
    \E r1, r2 \in Runs :
        /\ Succeeded(r1) /\ ContentTypeOf(runs[r1].req) = "text"
        /\ Succeeded(r2) /\ ContentTypeOf(runs[r2].req) = "image"

\* the accounts of a platform that are active
ActiveAccounts(platformId) ==
    {a \in DOMAIN platformAccounts :
        platformAccounts[a].platformId = platformId /\ platformAccounts[a].active}

\* C6: a request with scheduleImmediately true and a platformId that has no active
\* account (no account at all, or only accounts with active false) when it is
\* answered 201 gets scheduledPost null, and no ScheduledPost is created.
C6_NoActiveAccountNoPost ==
    [][\A r \in Runs :
          (Answers(r) /\ runs'[r].res.status = 201
             /\ TruthyBool(runs'[r].req.scheduleImmediately)
             /\ runs'[r].req.platformId # NULL
             /\ ActiveAccounts(runs'[r].req.platformId.v) = {}) =>
              /\ runs'[r].res.scheduledPost = NULL
              /\ scheduledPosts' = scheduledPosts]_vars

\* C7: a ScheduledPost is only ever created in the step that answers a request 201;
\* it is new in the store, its contentId is the id of the request's Content, its
\* platformAccountId names an account whose platformId is the request's, its status
\* is pending and its scheduledTime is the time of creation plus one hour.
C7_ScheduledPostFields ==
    [][/\ scheduledPosts' # scheduledPosts =>
             \E r \in Runs : Answers(r) /\ runs'[r].res.status = 201
                               /\ runs'[r].res.scheduledPost # NULL
       /\ \A r \in Runs :
             (Answers(r) /\ runs'[r].res.status = 201
                /\ runs'[r].res.scheduledPost # NULL) =>
                 LET post == runs'[r].res.scheduledPost
                 IN  /\ post.id \notin DOMAIN scheduledPosts
                     /\ scheduledPosts' = MapSet(scheduledPosts, post.id, post)
                     /\ post.contentId = runs'[r].res.content.id
                     /\ contents'[post.contentId] = runs'[r].res.content
                     /\ post.platformAccountId \in DOMAIN platformAccounts
                     /\ platformAccounts[post.platformAccountId].platformId =
                           runs'[r].req.platformId.v
                     /\ post.status = "pending"
                     /\ post.scheduledTime = now + Hour]_vars

\* a request has been answered with a ScheduledPost created after the clock moved
C7_Witness ==
    \E r \in Runs :
        /\ Succeeded(r)
        /\ runs[r].res.scheduledPost # NULL
        /\ runs[r].res.scheduledPost.scheduledTime > Hour

\* scheduling was not asked for: scheduleImmediately false or absent, or no platformId
NoScheduleAsked(req) == ~TruthyBool(req.scheduleImmediately) \/ req.platformId = NULL

\* C8: no step of a request with scheduleImmediately false or absent, or without
\* platformId, changes the scheduled posts, and its 201 answer has scheduledPost
\* null, whatever the contentType.
C8_NoScheduleWithoutFlag ==
    [][\A r \in Runs :
          (runs'[r] # runs[r] /\ NoScheduleAsked(runs'[r].req)) =>
              /\ scheduledPosts' = scheduledPosts /\ postId' = postId
              /\ (runs'[r].pc = "done" /\ runs'[r].res.status = 201) =>
                    runs'[r].res.scheduledPost = NULL]_vars

\* a request naming a platform with an active account, but not asking to schedule,
\* has been answered 201
C8_Witness ==
    \E r \in Runs :
        /\ Succeeded(r)
        /\ runs[r].req.platformId # NULL
        /\ ~TruthyBool(runs[r].req.scheduleImmediately)
        /\ ActiveAccounts(runs[r].req.platformId.v) # {}

\* C10: two overlapping requests without topicId that resolved their topic against
\* the same topics hold the same topic, and once both are answered 201 each has its
\* own Content in the store: two records with different ids.
C10_OverlappingRunsOwnContent ==
    \A r1, r2 \in Runs :
        (r1 # r2 /\ runs[r1].pc # "idle" /\ runs[r2].pc # "idle"
           /\ runs[r1].req.topicId = NULL /\ runs[r2].req.topicId = NULL
           /\ r1 \in hist[r2].during
           /\ hist[r1].topics = hist[r2].topics) =>
            /\ runs[r1].topic = runs[r2].topic
            /\ (Succeeded(r1) /\ Succeeded(r2)) =>
                  LET c1 == runs[r1].res.content
                      c2 == runs[r2].res.content
                  IN  /\ c1.id # c2.id
                      /\ {c1.id, c2.id} \subseteq DOMAIN contents
                      /\ contents[c1.id] = c1 /\ contents[c2.id] = c2
                      /\ c1.metadata.topic = c2.metadata.topic

\* two overlapping requests without topicId, with no topic change between their
\* resolutions, have both been answered 201
C10_Witness ==
    \E r1, r2 \in Runs :
        /\ r1 # r2
        /\ Succeeded(r1) /\ Succeeded(r2)
        /\ runs[r1].req.topicId = NULL /\ runs[r2].req.topicId = NULL
        /\ r1 \in hist[r2].during
        /\ hist[r1].topics = hist[r2].topics

----------------------------------------------------------------------------
(* Properties of the stored entities *)

\* the Maps of MemStorage, each with its id counter
Tables ==
    <<[map |-> platforms, counter |-> nextPlatformId],
      [map |-> platformAccounts, counter |-> accountId],
      [map |-> contents, counter |-> contentId],
      [map |-> scheduledPosts, counter |-> postId],
      [map |-> trendingTopics, counter |-> topicId],
      [map |-> scripts, counter |-> scriptId],
      [map |-> aiConfigs, counter |-> aiConfigId]>>

\* every live record is stored under its own id, below the counter
IdsBelowCounter(table) ==
    \A id \in DOMAIN table.map : table.map[id].id = id /\ id < table.counter

\* a step on one entity type: the counter never goes down, and a record that appears
\* takes the counter's value as its id and moves the counter past it
AssignsFromCounter(before, after) ==
    LET created == (DOMAIN after.map) \ (DOMAIN before.map)
    IN  /\ after.counter >= before.counter
        /\ created \subseteq {before.counter}
        /\ created # {} => after.counter = before.counter + 1

\* C11: across creates, updates and deletes on any entity type, every create takes
\* an id above every id assigned before it (the ids in use and the ids deleted all
\* lie below the counter, which never goes down), no two live records share an id,
\* and a deleted id is never assigned again
C11_IdsMonotoneNeverReused ==
    [][\A i \in 1..Len(Tables) :
          /\ IdsBelowCounter(Tables[i])
          /\ IdsBelowCounter(Tables'[i])
          /\ AssignsFromCounter(Tables[i], Tables'[i])]_vars

\* a content was created and deleted, and the next create took a later id
C11_Witness ==
    /\ 7 \notin DOMAIN contents
    /\ 8 \in DOMAIN contents
    /\ contentId = 9

\* the Map an update route writes, among the Maps of tables
UpdatedMap(route, tables) ==
    CASE route = "PUT /api/platforms/:id" -> tables[1].map
      [] route = "PUT /api/platform-accounts/:id" -> tables[2].map
      [] route = "PUT /api/content/:id" -> tables[3].map
      [] route = "PUT /api/scheduled-posts/:id" -> tables[4].map
      [] route = "PUT /api/trending-topics/:id" -> tables[5].map
      [] route = "PATCH /api/scripts/:id" -> tables[6].map
      [] route = "PATCH /api/ai-configs/:id" -> tables[7].map

UpdateRoutes ==
    {"PUT /api/platforms/:id", "PUT /api/platform-accounts/:id", "PUT /api/content/:id",
     "PUT /api/scheduled-posts/:id", "PUT /api/trending-topics/:id", "PATCH /api/scripts/:id",
     "PATCH /api/ai-configs/:id"}

\* this step serves an update of an existing record
UpdateServed == ops' = ops + 1 /\ last' # NULL /\ last'.route \in UpdateRoutes

\* the answer x.answer has the fields of the record before, those the body names with
\* the body's values and the others, except those in exempt, with the values before
MergedAnswer(x, exempt) ==
    /\ DOMAIN x.answer = DOMAIN x.before
    /\ \A f \in DOMAIN x.body : x.answer[f] = x.body[f]
    /\ \A f \in (DOMAIN x.before) \ ((DOMAIN x.body) \cup exempt) : x.answer[f] = x.before[f]

\* C12 as stated: an update of an existing record, of any entity type and AiConfig
\* included, answers with the record in which every field of the partial has its new
\* value and every other field is unchanged, and a get of the id that follows returns
\* that record
C12_UpdateMergesPartial ==
    [][UpdateServed =>
          /\ MergedAnswer(last', {})
          /\ MapGet(UpdatedMap(last'.route, Tables'), last'.id.v) = last'.answer]_vars

\* C12 amended: the same for Platform, PlatformAccount, Content, ScheduledPost,
\* TrendingTopic and Script; an update of an AiConfig leaves every field the partial
\* does not name unchanged except lastUpdated, which becomes the time of the update;
\* in both cases a get of the id that follows returns the answered record
C12_UpdateMergesExceptLastUpdated ==
    [][UpdateServed =>
          /\ IF last'.route = "PATCH /api/ai-configs/:id"
             THEN MergedAnswer(last', {"lastUpdated"}) /\ last'.answer.lastUpdated = now
             ELSE MergedAnswer(last', {})
          /\ MapGet(UpdatedMap(last'.route, Tables'), last'.id.v) = last'.answer]_vars

\* an AiConfig stamped at time 0 was updated later with a partial that names active only
C12_Witness ==
    /\ last # NULL
    /\ last.route = "PATCH /api/ai-configs/:id"
    /\ last.body = [active |-> FALSE]
    /\ last.before.active /\ last.before.lastUpdated = 0
    /\ ~last.answer.active /\ last.answer.lastUpdated = 1
    /\ last.answer.name = last.before.name
    /\ aiConfigs[last.id.v] = last.answer

----------------------------------------------------------------------------
(* Properties of the derived queries *)

\* this step serves a GET on route
QueryServed(route) == last' # last /\ last' # NULL /\ last'.route = route

\* the ids of the records of a sequence
IdsOf(seq) == {seq[i].id : i \in 1..Len(seq)}

\* C13: GET /api/content/recent, for every limit n it passes to getRecentContents,
\* answers with the n most recently created contents in descending createdAt
\* order, with all of them when fewer than n exist, and never with more than n
C13_RecentContents ==
    [][QueryServed("GET /api/content/recent") =>
          LET n   == LimitOf(last'.body.limit)
              ans == last'.answer
          IN  /\ Len(ans) <= n
              /\ Len(ans) = Min(n, Cardinality(DOMAIN contents))
              /\ \A i \in 1..Len(ans) : ans[i] \in Range(contents)
              /\ Cardinality(IdsOf(ans)) = Len(ans)
              /\ \A i \in 1..(Len(ans) - 1) : ans[i].createdAt >= ans[i + 1].createdAt
              /\ \A i \in 1..Len(ans) : \A c \in Range(contents) :
                    c.id \notin IdsOf(ans) => ans[i].createdAt >= c.createdAt]_vars

\* the answer is in descending trendScore order
DescendingByScore(ans) ==
    \A i \in 1..(Len(ans) - 1) : ans[i].trendScore >= ans[i + 1].trendScore

\* C14 as stated: GET /api/trending-topics/top answers in descending trendScore
\* order, and every topic whose trendScore is at least that of the n-th topic of the
\* full order is in the answer, ties with the n-th topic included
C14_TopIncludesTies ==
    [][QueryServed("GET /api/trending-topics/top") =>
          LET n    == LimitOf(last'.body.limit)
              ans  == last'.answer
              full == SortByScoreDesc(Values(trendingTopics))
          IN  /\ DescendingByScore(ans)
              /\ (n >= 1 /\ n <= Len(full)) =>
                    \A t \in Range(trendingTopics) :
                        t.trendScore >= full[n].trendScore => t.id \in IdsOf(ans)]_vars

\* C14 amended: the answer is in descending trendScore order and holds min(n, count)
\* topics for n >= 1 (all but the last |n| of the order for n < 0); no topic left out
\* has a higher trendScore than a topic in the answer, and a topic left out that ties
\* with a topic in the answer was created after it
C14_TopCutsAtLimit ==
    [][QueryServed("GET /api/trending-topics/top") =>
          LET n     == LimitOf(last'.body.limit)
              ans   == last'.answer
              count == Cardinality(DOMAIN trendingTopics)
          IN  /\ DescendingByScore(ans)
              /\ Len(ans) = IF n >= 1 THEN Min(n, count) ELSE Max(count + n, 0)
              /\ Cardinality(IdsOf(ans)) = Len(ans)
              /\ \A i \in 1..Len(ans) : ans[i] \in Range(trendingTopics)
              /\ \A i \in 1..Len(ans) : \A t \in Range(trendingTopics) :
                    t.id \notin IdsOf(ans) =>
                        \/ t.trendScore < ans[i].trendScore
                        \/ t.trendScore = ans[i].trendScore /\ t.id > ans[i].id]_vars

\* two topics tie on the highest trendScore and the top 1 was asked for: the answer
\* is the older one alone
C14_Witness ==
    /\ last # NULL
    /\ last.route = "GET /api/trending-topics/top"
    /\ last.body.limit = Some(1)
    /\ 4 \in DOMAIN trendingTopics /\ trendingTopics[4].trendScore = 92
    /\ last.answer = <<trendingTopics[3]>>

\* the posts of the store scheduled strictly after time t
UpcomingAt(t) == {post \in Range(scheduledPosts) : post.scheduledTime > t}

\* C15: GET /api/scheduled-posts/upcoming answers with posts whose scheduledTime is
\* strictly later than the time of the call only, in ascending scheduledTime order,
\* and they are the (at most n) earliest such posts
C15_UpcomingPosts ==
    [][QueryServed("GET /api/scheduled-posts/upcoming") =>
          LET n   == LimitOf(last'.body.limit)
              ans == last'.answer
          IN  /\ \A i \in 1..Len(ans) : ans[i] \in UpcomingAt(now)
              /\ \A i \in 1..(Len(ans) - 1) : ans[i].scheduledTime <= ans[i + 1].scheduledTime
              /\ Cardinality(IdsOf(ans)) = Len(ans)
              /\ Len(ans) <= n
              /\ Len(ans) = Min(n, Cardinality(UpcomingAt(now)))
              /\ \A i \in 1..Len(ans) : \A post \in UpcomingAt(now) :
                    post.id \notin IdsOf(ans) => ans[i].scheduledTime <= post.scheduledTime]_vars

----------------------------------------------------------------------------
(* Properties of the scheduled posts *)

\* no request has been served since new MemStorage()
JustConstructed == ops = 0 /\ last = NULL /\ \A r \in Runs : runs[r].pc = "idle"

\* the content and the platform account a post names are in the Maps given
ReferencesExist(post, contentMap, accountMap) ==
    post.contentId \in DOMAIN contentMap /\ post.platformAccountId \in DOMAIN accountMap

\* C16: every scheduled post of the store, a seed post or one created by a route,
\* named a content and a platform account that existed when the post was created
C16_PostsReferenceExisting ==
    [][/\ JustConstructed =>
             \A post \in Range(scheduledPosts) :
                 ReferencesExist(post, contents, platformAccounts)
       /\ \A id \in (DOMAIN scheduledPosts') \ (DOMAIN scheduledPosts) :
             ReferencesExist(scheduledPosts'[id], contents', platformAccounts')]_vars

\* this step serves a POST /api/automation/schedule
ScheduleServed ==
    ops' = ops + 1 /\ last' # NULL /\ last'.route = "POST /api/automation/schedule"

\* C17: POST /api/automation/schedule creates a scheduled post only when both the
\* content and the platform account it names exist; otherwise it answers 404 and
\* leaves the scheduled posts as they were; the post it creates has the requested
\* status, or "pending" when the request has none
C17_ScheduleChecksReferences ==
    [][ScheduleServed =>
          LET request == last'.body
              created == (DOMAIN scheduledPosts') \ (DOMAIN scheduledPosts)
          IN  IF ReferencesExist(request, contents, platformAccounts)
              THEN /\ last'.status = 201
                   /\ created = {last'.answer.id}
                   /\ scheduledPosts'[last'.answer.id] = last'.answer
                   /\ \A id \in DOMAIN scheduledPosts : scheduledPosts'[id] = scheduledPosts[id]
                   /\ last'.answer.contentId = request.contentId
                   /\ last'.answer.platformAccountId = request.platformAccountId
                   /\ last'.answer.status =
                         IF request.status = "" THEN "pending" ELSE request.status
              ELSE /\ last'.status = 404
                   /\ scheduledPosts' = scheduledPosts]_vars

\* a request without status, naming an existing content and account, was answered 201
\* with a pending post that is now in the store
C17_Witness ==
    /\ last # NULL
    /\ last.route = "POST /api/automation/schedule"
    /\ last.body.status = ""
    /\ last.status = 201
    /\ last.answer.status = "pending"
    /\ last.answer.id = 4
    /\ scheduledPosts[4] = last.answer

----------------------------------------------------------------------------
(* Properties of the trending topics, the scripts and their artifacts *)

\* C18: after any create or update the routes accept, every trending topic of the
\* store has a trendScore between 1 and 100
C18_TrendScoreInRange ==
    \A id \in DOMAIN trendingTopics :
        trendingTopics[id].trendScore >= 1 /\ trendingTopics[id].trendScore <= 100

\* the contents generated from script s
ContentsOfScript(s) ==
    {id \in DOMAIN contents :
        /\ "scriptId" \in DOMAIN contents[id].metadata
        /\ contents[id].metadata.scriptId = s}

\* C19: whatever text-to-speech and generate-video requests are served, a script
\* has at most one content whose metadata.scriptId is its id, and its audioPath is
\* assigned at most once: only a script without audio gets an audio path
C19_OneArtifactPerScript ==
    [][/\ \A s \in DOMAIN scripts' : Cardinality(ContentsOfScript(s)') <= 1
       /\ \A s \in (DOMAIN scripts) \cap (DOMAIN scripts') :
             scripts'[s].audioPath # scripts[s].audioPath => scripts[s].audioPath = NULL]_vars

\* the status order draft, finalized, converted
StatusRank(status) ==
    CASE status = "draft" -> 1
      [] status = "finalized" -> 2
      [] status = "converted" -> 3

\* C20: across any interleaving of text-to-speech and generate-video requests the
\* status of a script only moves forward along draft, finalized, converted
C20_StatusMovesForward ==
    [][\A s \in (DOMAIN scripts) \cap (DOMAIN scripts') :
          StatusRank(scripts'[s].status) >= StatusRank(scripts[s].status)]_vars

\* a text-to-speech request arrives in this step, for a script of the store and with
\* a voice that is not among the available voices
UnknownVoiceRequested(r) ==
    /\ runs[r].pc = "idle" /\ runs'[r].pc # "idle"
    /\ Field(runs'[r].req, "route", "") = "/ai/text-to-speech"
    /\ ScriptOf(runs'[r].req) # NULL
    /\ VoiceOf(runs'[r].req) \notin AvailableVoices

----------------------------------------------------------------------------
(* The generation services, called directly *)

\* ImageGenerationParams; an absent optional parameter is the empty string
ImageCall(modelId, size, style, format) ==
    [call |-> "generateImage", prompt |-> "prompt", modelId |-> modelId,
     size |-> size, style |-> style, format |-> format]

\* LocalImageGenerator.generateImage after the model is known to be downloaded:
\* the choice of size, style and format, imageCounter++, and the generation timer
StartImageTimer(r, params, modelId) ==
    /\ runs' = [runs EXCEPT ![r] =
           Merge([IdleRun EXCEPT !.pc = "imageTimer", !.req = params,
                                 !.pending = ImageResult(params, modelId, imageCounter, now)],
                 [modelId |-> modelId])]
    /\ imageCounter' = imageCounter + 1

\* LocalImageGenerator.generateImage up to its first suspension
GenerateImage(r, params) ==
    /\ runs[r].pc = "idle"
    /\ imgProcessing' = TRUE
    /\ LET modelId == OrStr(params.modelId, imgActiveModel)
       IN  IF modelId \in imgDownloaded
           THEN StartImageTimer(r, params, modelId)
           ELSE IF modelId \in DOMAIN AvailableImageModels
           THEN /\ runs' = [runs EXCEPT ![r] =
                       [IdleRun EXCEPT !.pc = "ensureModel", !.req = params]]
                /\ UNCHANGED imageCounter
           ELSE \* ensureModel answers false, availableModels[modelId] is undefined
                \* and reading model.supportedSizes throws
                /\ runs' = [runs EXCEPT ![r] =
                       [IdleRun EXCEPT !.pc = "done", !.req = params,
                                       !.res = [error |-> "TypeError"]]]
                /\ UNCHANGED imageCounter
    /\ UNCHANGED <<storeVars, cfgVars, llmVars, imgActiveModel, imgDownloaded, ttsVars,
                   vidVars, now, hist, ops, last>>

\* a direct call of LocalImageGenerator.ensureModel
EnsureModelCall(modelId) == [call |-> "ensureModel", modelId |-> modelId]

\* LocalImageGenerator.ensureModel up to its download timer
EnsureImageModel(r, modelId) ==
    /\ runs[r].pc \in {"idle", "done"}
    /\ LET base == [IdleRun EXCEPT !.req = EnsureModelCall(modelId)]
       IN  IF modelId \notin DOMAIN AvailableImageModels
           THEN /\ runs' = [runs EXCEPT ![r] =
                       [base EXCEPT !.pc = "done", !.res = [success |-> FALSE]]]
                /\ UNCHANGED imgActiveModel
           ELSE IF modelId \in imgDownloaded
           THEN /\ runs' = [runs EXCEPT ![r] =
                       [base EXCEPT !.pc = "done", !.res = [success |-> TRUE]]]
                /\ imgActiveModel' = modelId
           ELSE /\ runs' = [runs EXCEPT ![r] = [base EXCEPT !.pc = "ensureModel"]]
                /\ UNCHANGED imgActiveModel
    /\ UNCHANGED <<storeVars, cfgVars, llmVars, imgProcessing, imageCounter, imgDownloaded,
                   ttsVars, vidVars, now, hist, ops, last>>

\* the download timer of LocalImageGenerator.ensureModel fires; a generateImage call
\* that awaited it goes on to its generation timer
ImageModelEnsured(r) ==
    /\ runs[r].pc = "ensureModel"
    /\ Field(runs[r].req, "call", "") \in {"ensureModel", "generateImage"}
    /\ LET params == runs[r].req
       IN  /\ imgDownloaded' = imgDownloaded \cup {params.modelId}
           /\ imgActiveModel' = params.modelId
           /\ IF params.call = "generateImage"
              THEN StartImageTimer(r, params, params.modelId)
              ELSE /\ runs' = [runs EXCEPT ![r].pc = "done", ![r].res = [success |-> TRUE]]
                   /\ UNCHANGED imageCounter
    /\ UNCHANGED <<storeVars, cfgVars, llmVars, imgProcessing, ttsVars, vidVars, now, hist,
                   ops, last>>

\* the generation timer of LocalImageGenerator.generateImage fires
ImageResolved(r) ==
    /\ runs[r].pc = "imageTimer"
    /\ imgProcessing' = FALSE
    /\ runs' = [runs EXCEPT ![r].pc = "done", ![r].res = runs[r].pending]
    /\ UNCHANGED <<storeVars, cfgVars, llmVars, imageCounter, imgActiveModel, imgDownloaded,
                   ttsVars, vidVars, now, hist, ops, last>>

\* the inputs of the image generator: the three models, an unset model, a model that
\* is not in the table, and for each parameter an unset value, values some models
\* support and a value none supports
ImageModelInputs  ==
    {"", "svg-generator", "stable-diffusion-lite", "sketch-generator", "dall-e"}
ImageSizeInputs   == {"", "1280x720", "768x768", "640x480"}
ImageStyleInputs  == {"", "cartoon", "abstract", "watercolor"}
ImageFormatInputs == {"", "svg", "jpg", "gif"}

\* one generateImage call over all the inputs, a second one that overlaps it and
\* varies only the model, and ensureModel calls in any number
NextImages ==
    \/ \E m \in ImageModelInputs, size \in ImageSizeInputs,
          style \in ImageStyleInputs, format \in ImageFormatInputs :
           GenerateImage(1, ImageCall(m, size, style, format))
    \/ \E m \in ImageModelInputs : GenerateImage(2, ImageCall(m, "", "", ""))
    \/ \E r \in Runs, m \in ImageModelInputs \ {""} : EnsureImageModel(r, m)
    \/ \E r \in Runs : ImageModelEnsured(r)
    \/ \E r \in Runs : ImageResolved(r)

SpecImages == Init /\ [][NextImages]_vars

\* the value generateImage has to return for one parameter: the requested value when
\* the model lists it, the first listed value otherwise
Expected(requested, supported) ==
    IF \E i \in 1..Len(supported) : supported[i] = requested THEN requested
    ELSE supported[1]

\* C22: a generateImage call for an available model never ends in an error, and the
\* size, style and format it returns are each the requested value when the model
\* supports it and the first entry of the model's list otherwise
C22_ImageParamsFallBack ==
    \A r \in Runs :
        (/\ runs[r].pc = "done"
         /\ Field(runs[r].req, "call", "") = "generateImage"
         /\ OrStr(runs[r].req.modelId, "svg-generator") \in DOMAIN AvailableImageModels) =>
            LET params == runs[r].req
                res    == runs[r].res
                model  == AvailableImageModels[runs[r].modelId]
            IN  /\ "error" \notin DOMAIN res
                /\ res.size = Expected(params.size, model.supportedSizes)
                /\ res.style = Expected(params.style, model.supportedStyles)
                /\ res.format = Expected(params.format, model.supportedFormats)

\* a call that asked stable-diffusion-lite, not downloaded before, for a size and a
\* format it does not list and a style it lists has returned the first listed size
\* and format and the requested style
C22_Witness ==
    \E r \in Runs :
        /\ runs[r].pc = "done"
        /\ runs[r].req = ImageCall("stable-diffusion-lite", "1280x720", "abstract", "gif")
        /\ runs[r].res.size = "512x512"
        /\ runs[r].res.style = "abstract"
        /\ runs[r].res.format = "jpg"

----------------------------------------------------------------------------
(* Deletes *)

\* the delete routes of platforms, platform accounts, contents and trending topics,
\* each with the index of its table in Tables
DeleteRoutes ==
    [route \in {"DELETE /api/platforms/:id", "DELETE /api/platform-accounts/:id",
                "DELETE /api/content/:id", "DELETE /api/trending-topics/:id"} |->
        CASE route = "DELETE /api/platforms/:id" -> 1
          [] route = "DELETE /api/platform-accounts/:id" -> 2
          [] route = "DELETE /api/content/:id" -> 3
          [] OTHER -> 5]

\* this step serves one of the four delete routes
DeleteServed == ops' # ops /\ Field(last', "route", "") \in DOMAIN DeleteRoutes

\* C23: deleting a Platform, PlatformAccount, Content or TrendingTopic is answered 204
\* and removes that one record from its table; every other table, the records that
\* reference the deleted one included, and every id counter stay as they were
C23_DeleteRemovesOneRecord ==
    [][DeleteServed =>
          LET t == DeleteRoutes[last'.route]
          IN  /\ last'.status = 204
              /\ last'.id.v \in DOMAIN Tables[t].map
              /\ \A i \in 1..Len(Tables) :
                    /\ Tables'[i].counter = Tables[i].counter
                    /\ Tables'[i].map = IF i = t THEN MapDelete(Tables[i].map, last'.id.v)
                                        ELSE Tables[i].map]_vars

\* content 1 has just been deleted while a scheduled post refers to it and still does
C23_Witness ==
    /\ Field(last, "route", "") = "DELETE /api/content/:id"
    /\ last.id = Some(1)
    /\ 1 \notin DOMAIN contents
    /\ \E p \in DOMAIN scheduledPosts : scheduledPosts[p].contentId = 1
    /\ \A p \in 1..3 : p \in DOMAIN scheduledPosts

----------------------------------------------------------------------------
(* Termination of create-content *)

\* the timer of the stub call request r is suspended in fires
TimerFires(r) ==
    \/ ScriptGenerated(r)
    \/ ThumbnailGenerated(r)
    \/ AudioGenerated(r)
    \/ VisualGenerated(r)
    \/ VideoThumbnailGenerated(r)
    \/ VideoCompiled(r)
    \/ ImageGenerated(r)
    \/ ContentGenerated(r)

\* interleaved requests of the three branches, with bodies the schema rejects and
\* topics that do not exist among them
NextCreate ==
    \/ \E r \in Runs, t \in {NULL, Some(4)},
          c \in {NULL, Some("image"), Some("text"), Some("audio")} :
          Start(r, Request(t, NULL, c, NULL))
    \/ \E r \in Runs : TimerFires(r)

SpecCreate == Init /\ [][NextCreate]_vars

\* every stub resolves through setTimeout with a capped delay: a pending timer fires
SpecCreateFair == SpecCreate /\ \A r \in Runs : WF_vars(TimerFires(r))

\* C24: a create-content request that has arrived is eventually answered, with 201,
\* 400, 404 or 500, and an answer once sent is never followed by another
C24_RespondsExactlyOnce ==
    /\ \A r \in Runs :
          (runs[r].pc # "idle") ~>
              (runs[r].pc = "done" /\ runs[r].res.status \in {201, 400, 404, 500})
    /\ [][\A r \in Runs :
             /\ runs[r].res # NULL => runs'[r] = runs[r]
             /\ runs'[r].res # NULL => runs'[r].pc = "done"]_vars

\* a video request has gone through all its stages and was answered 201, and a
\* request with an unknown content type was answered 400
C24_Witness ==
    /\ runs[1].pc = "done" /\ runs[1].res.status = 201
    /\ runs[1].res.content.contentType = "video"
    /\ runs[2].pc = "done" /\ runs[2].res.status = 400

----------------------------------------------------------------------------
(* Topic resolution under concurrent topic changes *)

\* C25: a create-content request resolves its topic in the step in which it arrives
\* and keeps it: whatever happens to the store's topics while the request is
\* suspended, it completes with 201 and both the returned topic and the Content's
\* metadata.topic are those of the topic resolved on arrival
C25_TopicResolvedOnce ==
    [][\A r \in Runs :
          /\ (runs[r].pc = "idle" /\ runs'[r].pc # "idle") =>
                runs'[r].topic = ResolveTopic(runs'[r].req)
          /\ runs[r].pc # "idle" => runs'[r].topic = runs[r].topic
          /\ (runs[r].pc \notin {"idle", "done"} /\ runs'[r].pc = "done") =>
                /\ runs'[r].res.status = 201
                /\ runs'[r].res.topic = runs[r].topic
                /\ runs'[r].res.content.metadata.topic = runs[r].topic.topic
                /\ contents'[runs'[r].res.content.id] = runs'[r].res.content]_vars

\* request 1 took the top topic; when request 2 arrived, request 1 was suspended and
\* that topic was already deleted; request 1 was answered 201 with the deleted topic
C25_Witness ==
    /\ runs[1].pc = "done" /\ runs[1].req.topicId = NULL
    /\ runs[1].res.status = 201
    /\ hist[2] # NULL
    /\ 1 \in hist[2].during
    /\ runs[1].topic.id \notin DOMAIN hist[2].topics
    /\ runs[1].res.topic = hist[1].topics[runs[1].topic.id]
    /\ runs[1].res.content.metadata.topic = runs[1].res.topic.topic

----------------------------------------------------------------------------
(* Scheduling under concurrent deletes *)

\* a video or text request and an image request, each asking to be scheduled on
\* platform 1 or 2, interleaved with deletes of contents and accounts and the
\* creation of a second account on platform 1
NextDeletes ==
    \/ \E c \in {NULL, Some("text")}, p \in {Some(1), Some(2)} :
          Start(1, Request(NULL, p, c, Some(TRUE)))
    \/ \E p \in {Some(1), Some(2)} : Start(2, Request(NULL, p, Some("image"), Some(TRUE)))
    \/ \E r \in Runs : TimerFires(r)
    \/ \E id \in {1, 7, 8} : DeleteContent(id)
    \/ UNCHANGED last /\ \E id \in {1, 2, 4} : DeletePlatformAccount(id)
    \/ UNCHANGED last /\ PostPlatformAccount(AccountInput(1, TRUE))

SpecDeletes == Init /\ [][NextDeletes]_vars

\* C26: in the step in which a create-content request creates its ScheduledPost, the
\* Content the request created and the account it chose are both in the store, and
\* the post names them
C26_PostOnLiveRecords ==
    [][\A id \in (DOMAIN scheduledPosts') \ (DOMAIN scheduledPosts) :
          \E r \in Runs :
              /\ Answers(r)
              /\ runs'[r].res.scheduledPost = scheduledPosts'[id]
              /\ scheduledPosts'[id].contentId = runs'[r].res.content.id
              /\ runs'[r].res.content.id \in DOMAIN contents'
              /\ contents'[runs'[r].res.content.id] = runs'[r].res.content
              /\ scheduledPosts'[id].platformAccountId \in DOMAIN platformAccounts'
              /\ platformAccounts'[scheduledPosts'[id].platformAccountId].platformId =
                    runs'[r].req.platformId.v]_vars

\* a request for platform 1 was scheduled on the account created after the seed
\* account of that platform was deleted, and the other request's Content is deleted
C26_Witness ==
    \E r \in Runs :
        /\ Succeeded(r)
        /\ runs[r].req.platformId = Some(1)
        /\ runs[r].res.scheduledPost # NULL
        /\ runs[r].res.scheduledPost.platformAccountId = 4
        /\ 1 \notin DOMAIN platformAccounts
        /\ runs[r].res.content.id = 8
        /\ 7 \notin DOMAIN contents

----------------------------------------------------------------------------
(* POST /api/ai/download-model *)

\* a body of the route; configId is absent (NULL) or a number
DownloadRequest(config) == [route |-> "/ai/download-model", configId |-> config]

\* `${modelName}-small`
SmallKey(modelName) == modelName \o "-small"

\* the acquire step when it ends without a timer: NULL when a timer is started.
\* localLLM.ensureModel always starts one; localTTS.downloadVoice and
\* localImageGenerator.ensureModel refuse an unknown name at once, ensureModel
\* accepts a downloaded model at once; any other modelType acquires nothing
AcquireAtOnce(config) ==
    IF config.modelType = "llm" THEN NULL
    ELSE IF config.modelType = "tts"
    THEN IF config.modelName \in AvailableVoices THEN NULL ELSE [success |-> FALSE]
    ELSE IF config.modelType = "image"
    THEN IF config.modelName \notin DOMAIN AvailableImageModels THEN [success |-> FALSE]
         ELSE IF config.modelName \in imgDownloaded THEN [success |-> TRUE]
         ELSE NULL
    ELSE [success |-> FALSE]

\* success ? "available" : "failed"
DownloadStatusOf(success) == IF success THEN "available" ELSE "failed"

\* the handler up to the timer of the acquire step, or to its answer when the
\* acquire step starts no timer
PostDownloadModel(r, body) ==
    /\ runs[r].pc = "idle"
    /\ LET config == IF TruthyNum(body.configId) THEN MapGet(aiConfigs, body.configId.v)
                     ELSE NULL
           base   == [IdleRun EXCEPT !.req = body]
       IN  IF ~TruthyNum(body.configId)
           THEN /\ runs' = [runs EXCEPT ![r] =
                       [base EXCEPT !.pc = "done",
                                    !.res = [status |-> 400,
                                             error |-> "Missing configId parameter"]]]
                /\ UNCHANGED <<aiConfigs, imgActiveModel>>
           ELSE IF config = NULL
           THEN /\ runs' = [runs EXCEPT ![r] =
                       [base EXCEPT !.pc = "done",
                                    !.res = [status |-> 404, error |-> "AI Config not found"]]]
                /\ UNCHANGED <<aiConfigs, imgActiveModel>>
           ELSE LET outcome == AcquireAtOnce(config)
                    marked  == updateAiConfig(config, [downloadStatus |-> "downloading"], now)
                IN  IF outcome = NULL
                    THEN /\ aiConfigs' = MapSet(aiConfigs, config.id, marked)
                         /\ runs' = [runs EXCEPT ![r] =
                                Merge([base EXCEPT !.pc = "acquire"], [config |-> config])]
                         /\ UNCHANGED imgActiveModel
                    ELSE LET updated == updateAiConfig(marked,
                                            [downloadStatus |-> DownloadStatusOf(outcome.success)],
                                            now)
                         IN  /\ aiConfigs' = MapSet(aiConfigs, config.id, updated)
                             /\ runs' = [runs EXCEPT ![r] =
                                    Merge([base EXCEPT !.pc = "done",
                                                       !.res = [status |-> 200,
                                                                config |-> updated,
                                                                success |-> outcome.success]],
                                          [config |-> config])]
                             /\ imgActiveModel' =
                                    IF config.modelType = "image" /\ outcome.success
                                    THEN config.modelName ELSE imgActiveModel
    /\ UNCHANGED <<storeVars, platforms, nextPlatformId, aiConfigId, llmVars, imgProcessing,
                   imageCounter, imgDownloaded, ttsVars, vidVars, now, hist, ops, last>>

\* a handler that answers without storing the final status
DownloadAcquired_unstored(r) ==
    /\ runs[r].pc = "acquire"
    /\ runs' = [runs EXCEPT ![r].pc = "done",
                            ![r].res = [status |-> 200,
                                        config |-> MapGet(aiConfigs, runs[r].config.id),
                                        success |-> TRUE]]
    /\ UNCHANGED <<storeVars, cfgVars, stubVars, now, hist, ops, last>>

\* the timer of the acquire step fires: the model or voice is recorded as downloaded
\* and the handler stores the final status and answers
DownloadAcquired(r) ==
    /\ runs[r].pc = "acquire"
    /\ LET config  == runs[r].config
           stored  == MapGet(aiConfigs, config.id)
           updated == IF stored = NULL THEN NULL
                      ELSE updateAiConfig(stored, [downloadStatus |-> DownloadStatusOf(TRUE)],
                                          now)
       IN  /\ llmDownloaded' = IF config.modelType = "llm"
                               THEN llmDownloaded \cup {SmallKey(config.modelName)}
                               ELSE llmDownloaded
           /\ llmActiveModel' = IF config.modelType = "llm" THEN SmallKey(config.modelName)
                                ELSE llmActiveModel
           /\ downloadedVoices' = IF config.modelType = "tts"
                                  THEN downloadedVoices \cup {config.modelName}
                                  ELSE downloadedVoices
           /\ imgDownloaded' = IF config.modelType = "image"
                               THEN imgDownloaded \cup {config.modelName} ELSE imgDownloaded
           /\ imgActiveModel' = IF config.modelType = "image" THEN config.modelName
                                ELSE imgActiveModel
           /\ aiConfigs' = IF updated = NULL THEN aiConfigs
                           ELSE MapSet(aiConfigs, config.id, updated)
           /\ runs' = [runs EXCEPT ![r].pc = "done",
                                   ![r].res = [status |-> 200, config |-> updated,
                                               success |-> TRUE]]
    /\ UNCHANGED <<storeVars, platforms, nextPlatformId, aiConfigId, llmProcessing,
                   imgProcessing, imageCounter, ttsProcessing, audioCounter, vidVars, now,
                   hist, ops, last>>

\* configurations created through POST /api/ai-configs: a model and a voice that can
\* be downloaded, a voice and a model type that cannot, and a second llm
DownloadConfigs ==
    {[name |-> "Test", modelType |-> type, modelName |-> model] :
        <<type, model>> \in {<<"image", "stable-diffusion-lite">>, <<"tts", "casual-male">>,
                             <<"tts", "robot">>, <<"video", "ffmpeg">>, <<"llm", "mistral">>}}

\* download requests for seed and new configurations, overlapping one another and
\* interleaved with the creation and deletion of configurations
NextDownloads ==
    \/ \E r \in Runs, id \in {NULL, Some(1), Some(3), Some(4), Some(5)} :
          PostDownloadModel(r, DownloadRequest(id))
    \/ \E r \in Runs : DownloadAcquired(r)
    \/ \E ins \in DownloadConfigs : PostAiConfig(ins)
    \/ \E id \in {1, 4} : DeleteAiConfig(id)

SpecDownloads == Init /\ [][NextDownloads]_vars

\* download request r names an existing configuration
DownloadOf(r, id) ==
    /\ Field(runs[r].req, "route", "") = "/ai/download-model"
    /\ "config" \in DOMAIN runs[r]
    /\ runs[r].config.id = id

\* C27: a download-model request on an existing AiConfig sets downloadStatus to
\* "downloading" in the step that starts the acquire step; a request that completes
\* stores "available" when its acquire step succeeded and "failed" otherwise; and
\* whenever a configuration still exists and none of the requests made for it is in
\* flight, its downloadStatus is the one of the requests completed for it
C27_DownloadStatusFollowsAcquire ==
    /\ [][\A r \in Runs :
             /\ (runs[r].pc = "idle" /\ runs'[r].pc = "acquire") =>
                   aiConfigs'[runs'[r].config.id].downloadStatus = "downloading"
             /\ (Answers(r) /\ runs'[r].res.status = 200
                   /\ runs'[r].config.id \in DOMAIN aiConfigs') =>
                   aiConfigs'[runs'[r].config.id].downloadStatus =
                       DownloadStatusOf(runs'[r].res.success)]_vars
    /\ [](\A id \in DOMAIN aiConfigs :
             (/\ \E r \in Runs : DownloadOf(r, id)
              /\ \A r \in Runs : DownloadOf(r, id) => runs[r].pc = "done") =>
                 \A r \in Runs :
                     DownloadOf(r, id) =>
                         aiConfigs[id].downloadStatus = DownloadStatusOf(runs[r].res.success))

\* two overlapping requests for the posted stable-diffusion-lite configuration have
\* both completed and the configuration is "available"; the video configuration's
\* request would have left "failed"
C27_Witness ==
    /\ 4 \in DOMAIN aiConfigs
    /\ aiConfigs[4].modelName = "stable-diffusion-lite"
    /\ aiConfigs[4].downloadStatus = "available"
    /\ \A r \in Runs : DownloadOf(r, 4) /\ runs[r].pc = "done" /\ runs[r].res.success
    /\ "stable-diffusion-lite" \in imgDownloaded

----------------------------------------------------------------------------
(* The script update that ends text-to-speech and generate-video *)

\* text-to-speech and generate-video requests on the seed scripts, overlapping one
\* another and interleaved with patches and deletes of those scripts
NextMerges ==
    \/ \E r \in Runs, s \in {Some(1), Some(2)}, v \in {"", "casual-male"} :
          PostTextToSpeech(r, TtsRequest(s, v))
    \/ \E r \in Runs : VoiceDownloaded(r)
    \/ \E r \in Runs : TextToSpeechDone(r)
    \/ \E r \in Runs : PostGenerateVideo(r, ScriptRequest("/ai/generate-video", Some(1)))
    \/ \E r \in Runs : AudioGenerated(r)
    \/ \E r \in Runs : VisualGenerated(r)
    \/ \E r \in Runs : VideoThumbnailGenerated(r)
    \/ \E r \in Runs : GenerateVideoDone(r)
    \/ \E u \in {[tone |-> "formal"], [status |-> "archived"]} : PatchScript(1, u)
    \/ DeleteScript(2)

SpecMerges == Init /\ [][NextMerges]_vars

\* request r, on one of the two script routes, is answered in this step after its
\* generation, while its script is still in the store
ScriptRunEnds(r, route) ==
    /\ runs[r].pc \notin {"idle", "done"} /\ runs'[r].pc = "done"
    /\ Field(runs[r].req, "route", "") = route
    /\ runs[r].script.id \in DOMAIN scripts

\* C28: the update that ends a text-to-speech or generate-video request is applied to
\* the script as the store holds it at that moment: text-to-speech replaces audioPath
\* and status, generate-video replaces status, and every other field keeps the value
\* the store held, whatever the request had read before its suspension
C28_UpdateMergesOnCurrent ==
    [][\A r \in Runs :
          /\ ScriptRunEnds(r, "/ai/text-to-speech") =>
                scripts' = [scripts EXCEPT ![runs[r].script.id] =
                               [scripts[runs[r].script.id] EXCEPT
                                   !.audioPath = runs[r].audio, !.status = "finalized"]]
          /\ ScriptRunEnds(r, "/ai/generate-video") =>
                scripts' = [scripts EXCEPT ![runs[r].script.id] =
                               [scripts[runs[r].script.id] EXCEPT !.status = "converted"]]]_vars

\* a text-to-speech request read script 1 with its original tone, the tone was
\* patched during the generation, and the script the request stored and returned
\* has the patched tone and the new audio
C28_Witness ==
    \E r \in Runs :
        /\ runs[r].pc = "done"
        /\ Field(runs[r].req, "route", "") = "/ai/text-to-speech"
        /\ runs[r].res.status = 200
        /\ runs[r].script.id = 1
        /\ runs[r].script.tone # "formal"
        /\ runs[r].res.script.tone = "formal"
        /\ runs[r].res.script.audioPath = runs[r].audio
        /\ runs[r].res.script.status = "finalized"

----------------------------------------------------------------------------
(* The models of the generation services *)

\* localLLM.ts availableModels: the keys of the table
AvailableLlmModels == {"llama3-tiny", "llama3-small", "mistral-base", "phi-small"}

\* the active model is downloaded and every downloaded model is in the table
ModelsKnown(active, downloaded, available) ==
    active \in downloaded /\ downloaded \subseteq available

\* LocalImageGenerator keeps its active model downloaded and its downloaded models
\* among the keys of its availableModels
ImageModelsKnown == ModelsKnown(imgActiveModel, imgDownloaded, DOMAIN AvailableImageModels)

\* C29: in every reachable state the active model of LocalLLM and of
\* LocalImageGenerator is one of the service's downloaded models, and every
\* downloaded model is a key of the service's table of available models
C29_ModelsDownloadedAndKnown ==
    /\ ImageModelsKnown
    /\ ModelsKnown(llmActiveModel, llmDownloaded, AvailableLlmModels)

----------------------------------------------------------------------------
(* The isProcessing flags *)

\* some request is suspended in a call of the service whose calls are the stages given
InFlight(stages) == \E r \in Runs : runs[r].pc \in stages

\* the stages of a request during which a generation call of each service is pending
LlmStages   == {"generateScript", "generateContent"}
ImageStages == {"generateImage", "generateThumbnail", "generateVisual", "videoThumbnail",
                "imageTimer"}
TtsStages   == {"textToAudio", "scriptToAudio", "downloadVoice"}
VideoStages == {"downloadVoice", "textToAudio", "generateVisual", "videoThumbnail",
                "compileVideo"}

\* C30: the isProcessing flag of each generation service is true exactly while at
\* least one generation call of that service is in flight
C30_ProcessingWhileInFlight ==
    /\ llmProcessing <=> InFlight(LlmStages)
    /\ imgProcessing <=> InFlight(ImageStages)
    /\ ttsProcessing <=> InFlight(TtsStages)
    /\ vidProcessing <=> InFlight(VideoStages)

====
